---- MODULE Spec2Model ----
(***************************************************************************)
(* Verification model of the qro-change-detection tile services:           *)
(*   - the signed-URL cache of the raster tile endpoint                    *)
(*     (src/src/app/api/tile/route.ts, src/api/tile.js),                   *)
(*   - the PMTiles byte-range proxy (src/src/lib/pmtiles-serve.ts and      *)
(*     src/src/app/api/pmtiles/[layer]/route.ts),                          *)
(*   - the Web-Mercator tile geometry (tileBounds),                        *)
(*   - the pixel window and output placement of the tile handler,          *)
(*   - the tile handler GET /api/tile itself.                              *)
(* Each subsystem has its own specification (SpecUrl, SpecRange, SpecPm,   *)
(* SpecTile, SpecWindow, SpecHandler); the variables of the other          *)
(* subsystems stay parked.                                                 *)
(***************************************************************************)
EXTENDS Integers, Sequences, FiniteSets, TLC

VARIABLES
    now,            \* Date.now(), in ms since the process started
    ticks,          \* number of clock advances made so far
    urlCache,       \* route.ts: let urlCache: Record<string,string>
    urlCacheTime,   \* route.ts: let urlCacheTime
    lookup,         \* per caller: position inside getCogSignedUrl
    ret,            \* what the last finished getCogSignedUrl call returned
    hdr,            \* SpecRange: the request's Range header
    objSize,        \* SpecRange: size of the object, as cached in FileMeta
    rpc,            \* SpecRange: position of the request
    resp,           \* SpecRange: the NextResponse built by servePmtilesRange
    body,           \* SpecRange: what the GCS read stream delivered as the body
    env,            \* process.env: whether GCS_BUCKET is set
    metaCache,      \* pmtiles-serve.ts: const metaCache = new Map<string, FileMeta>()
    req,            \* per client: position inside GET /api/pmtiles/[layer]
    outcome,        \* the outcome of the last request that finished
    tile,           \* SpecTile: the tile coordinate {z, x, y} of the request
    tpc,            \* SpecTile: position of the computation
    bounds,         \* SpecTile: the result of tileBounds(z, x, y)
    scene,          \* SpecWindow: the variant, the tile bounds, the bad overviews
    wpc,            \* SpecWindow: position of the computation
    calc,           \* SpecWindow: pixel region, level, window, read, placement
    query,          \* SpecHandler: the query of the tile request and the cache state
    gpc,            \* SpecHandler: position inside GET /api/tile
    work,           \* SpecHandler: what the handler has computed and done so far
    answer,         \* SpecHandler: the answer returned
    store,          \* the bucket: how often the stored objects were replaced
    pick,           \* SpecSelect: the resolutions of the levels and the choice
    raster,         \* SpecEncode: the pixels read and what the encoder is given
    view            \* SpecViewer: checkboxes, layers and opacity of the map page

urlVars == <<urlCache, urlCacheTime, lookup, ret>>
rangeVars == <<hdr, objSize, rpc, resp, body>>
pmVars == <<env, metaCache, req, outcome, store>>
tileVars == <<tile, tpc, bounds>>
windowVars == <<scene, wpc, calc>>
handlerVars == <<query, gpc, work, answer>>
clockVars == <<now, ticks>>
selectVars == <<pick>>
encodeVars == <<raster>>
viewerVars == <<view>>

(***************************************************************************)
(* Bounds of the model.                                                    *)
(***************************************************************************)
MaxTicks == 4
NumCallers == 2

Callers == 1..NumCallers

(***************************************************************************)
(* Signed-URL cache: getCogSignedUrl (route.ts) / getCogUrl (tile.js).     *)
(***************************************************************************)
RENEW_AFTER_MS == 3000000
SIGNED_VALIDITY_MS == 3600000
maxDuration == 30

COG_FILES ==
    [y \in {"2017", "2024"} |->
        IF y = "2017" THEN "raster/satellite_2017_cog.tif"
                      ELSE "raster/satellite_2024_cog.tif"]

Years == DOMAIN COG_FILES

\* urlCache[year] is undefined until the first issuance for that year.
NoUrl == [object |-> "undefined", issuedAt |-> 0, expires |-> 0]

\* getSignedUrl({version:'v4', action:'read', expires: now + 3_600_000}) for the
\* object of `year`, with `t0` the value of `now` captured on entry.
SignedUrl(year, t0) ==
    [object |-> COG_FILES[year], issuedAt |-> t0, expires |-> t0 + SIGNED_VALIDITY_MS]

\* The guard of the cache hit: urlCache[year] && now - urlCacheTime < 3_000_000.
CacheHit(year, t) ==
    /\ urlCache[year] # NoUrl
    /\ t - urlCacheTime < RENEW_AFTER_MS

\* Whether the entry of `year` itself was issued less than the renewal window ago.
OwnEntryFresh(year, t) ==
    /\ urlCache[year] # NoUrl
    /\ t - urlCache[year].issuedAt < RENEW_AFTER_MS

IdleLookup == [pc |-> "idle", year |-> "2017", t0 |-> 0, ownFresh |-> FALSE]
NoRet == [kind |-> "none", year |-> "2017", url |-> NoUrl, at |-> 0, ownFresh |-> FALSE]

InitUrl ==
    /\ urlCache = [y \in Years |-> NoUrl]
    /\ urlCacheTime = 0
    /\ lookup = [c \in Callers |-> IdleLookup]
    /\ ret = NoRet

\* Entry of getCogSignedUrl(year): either the cached URL is returned at once, or
\* the call suspends at `await getSignedUrl(...)` with `now` captured.
getCogSignedUrl(c, year) ==
    /\ lookup[c].pc = "idle"
    /\ IF CacheHit(year, now)
       THEN /\ ret' = [kind |-> "cached", year |-> year, url |-> urlCache[year],
                       at |-> now, ownFresh |-> OwnEntryFresh(year, now)]
            /\ UNCHANGED <<urlCache, urlCacheTime, lookup>>
       ELSE /\ lookup' = [lookup EXCEPT ![c] =
                            [pc |-> "issuing", year |-> year, t0 |-> now,
                             ownFresh |-> OwnEntryFresh(year, now)]]
            /\ UNCHANGED <<urlCache, urlCacheTime, ret>>
    /\ UNCHANGED <<clockVars, rangeVars, pmVars, tileVars, windowVars, handlerVars,
                   selectVars, encodeVars, viewerVars>>

\* The await resolves: urlCache[year] = url; urlCacheTime = now (the captured one).
IssueDone(c) ==
    /\ lookup[c].pc = "issuing"
    /\ LET year == lookup[c].year
           url == SignedUrl(year, lookup[c].t0)
       IN /\ urlCache' = [urlCache EXCEPT ![year] = url]
          /\ urlCacheTime' = lookup[c].t0
          /\ ret' = [kind |-> "issued", year |-> year, url |-> url,
                     at |-> lookup[c].t0, ownFresh |-> lookup[c].ownFresh]
    /\ lookup' = [lookup EXCEPT ![c] = IdleLookup]
    /\ UNCHANGED <<clockVars, rangeVars, pmVars, tileVars, windowVars, handlerVars,
                   selectVars, encodeVars, viewerVars>>

\* A slip that would stamp the cache before the URL is there.
IssueFail_StampsTime(c) ==
    /\ lookup[c].pc = "issuing"
    /\ ret' = [kind |-> "threw", year |-> lookup[c].year, url |-> NoUrl,
               at |-> lookup[c].t0, ownFresh |-> lookup[c].ownFresh]
    /\ lookup' = [lookup EXCEPT ![c] = IdleLookup]
    /\ urlCacheTime' = lookup[c].t0
    /\ UNCHANGED urlCache
    /\ UNCHANGED <<clockVars, rangeVars, pmVars, tileVars, windowVars, handlerVars,
                   selectVars, encodeVars, viewerVars>>

\* The await rejects (credentials, network): the exception leaves the function
\* before either assignment.
IssueFail(c) ==
    /\ lookup[c].pc = "issuing"
    /\ ret' = [kind |-> "threw", year |-> lookup[c].year, url |-> NoUrl,
               at |-> lookup[c].t0, ownFresh |-> lookup[c].ownFresh]
    /\ lookup' = [lookup EXCEPT ![c] = IdleLookup]
    /\ UNCHANGED <<urlCache, urlCacheTime>>
    /\ UNCHANGED <<clockVars, rangeVars, pmVars, tileVars, windowVars, handlerVars,
                   selectVars, encodeVars, viewerVars>>

\* The clock advances by 1 ms or by one ms less than the renewal window. A request
\* in flight is cut off by the platform after maxDuration seconds, so the clock
\* cannot pass that age of a suspended call.
UrlTickSizes == {1, RENEW_AFTER_MS - 1}

InFlightWithin(t) ==
    \A c \in Callers :
        lookup[c].pc = "issuing" => t - lookup[c].t0 <= maxDuration * 1000

UrlTick ==
    /\ ticks < MaxTicks
    /\ \E d \in UrlTickSizes :
          /\ InFlightWithin(now + d)
          /\ now' = now + d
    /\ ticks' = ticks + 1
    /\ UNCHANGED <<urlVars, rangeVars, pmVars, tileVars, windowVars, handlerVars,
                   selectVars, encodeVars, viewerVars>>

NextUrl ==
    \/ \E c \in Callers, year \in Years : getCogSignedUrl(c, year)
    \/ \E c \in Callers : IssueDone(c)
    \/ \E c \in Callers : IssueFail(c)
    \/ UrlTick

(***************************************************************************)
(* PMTiles byte-range proxy: parseRange and servePmtilesRange              *)
(* (src/src/lib/pmtiles-serve.ts).  A header is a sequence of characters.  *)
(***************************************************************************)
MaxTail == 4
MaxSize == 12

Digits == {"0", "1", "2", "3", "4", "5", "6", "7", "8", "9"}

DigitValue(ch) ==
    CASE ch = "0" -> 0 [] ch = "1" -> 1 [] ch = "2" -> 2 [] ch = "3" -> 3
      [] ch = "4" -> 4 [] ch = "5" -> 5 [] ch = "6" -> 6 [] ch = "7" -> 7
      [] ch = "8" -> 8 [] ch = "9" -> 9

\* parseInt(s, 10) of a non-empty string of decimal digits.
RECURSIVE parseInt(_)
parseInt(ds) ==
    IF Len(ds) = 0 THEN 0
    ELSE parseInt(SubSeq(ds, 1, Len(ds) - 1)) * 10 + DigitValue(ds[Len(ds)])

\* Number of leading characters of s that are decimal digits (the greedy \d+).
RECURSIVE LeadingDigits(_)
LeadingDigits(s) ==
    IF Len(s) = 0 \/ s[1] \notin Digits THEN 0
    ELSE 1 + LeadingDigits(Tail(s))

BytesPrefix == <<"b", "y", "t", "e", "s", "=">>

NoMatch == [matched |-> FALSE, g1 |-> <<>>, g2 |-> <<>>]

\* header.match(/^bytes=(\d+)-(\d*)$/): the two capture groups, or no match.
RangeMatch(text) ==
    IF Len(text) < Len(BytesPrefix) \/ SubSeq(text, 1, Len(BytesPrefix)) # BytesPrefix
    THEN NoMatch
    ELSE LET rest == SubSeq(text, Len(BytesPrefix) + 1, Len(text))
             k == LeadingDigits(rest)
             after == SubSeq(rest, k + 2, Len(rest))
         IN IF /\ k >= 1
               /\ Len(rest) >= k + 1
               /\ rest[k + 1] = "-"
               /\ LeadingDigits(after) = Len(after)
            THEN [matched |-> TRUE, g1 |-> SubSeq(rest, 1, k), g2 |-> after]
            ELSE NoMatch

NoRange == [isNull |-> TRUE, start |-> 0, end |-> 0]

\* A slip in the final test: an end equal to the size is let through.
RangeRejected_EndOffByOne(start, end, fileSize) ==
    start >= fileSize \/ end > fileSize \/ start > end

\* The final test of parseRange: start >= fileSize || end >= fileSize || start > end.
RangeRejected(start, end, fileSize) ==
    start >= fileSize \/ end >= fileSize \/ start > end

\* A slip in the default: the size itself instead of the last byte's index.
DefaultEnd_IsSize(fileSize) == fileSize

\* The end of an open range (bytes=<start>-): fileSize - 1.
DefaultEnd(fileSize) == fileSize - 1

\* parseRange(header, fileSize).  header.present is FALSE for a null header; an
\* empty string is falsy as well.
parseRange(header, fileSize) ==
    IF ~header.present \/ Len(header.text) = 0 THEN NoRange
    ELSE LET m == RangeMatch(header.text)
         IN IF ~m.matched THEN NoRange
            ELSE LET start == parseInt(m.g1)
                     end == IF Len(m.g2) > 0 THEN parseInt(m.g2) ELSE DefaultEnd(fileSize)
                 IN IF RangeRejected(start, end, fileSize) THEN NoRange
                    ELSE [isNull |-> FALSE, start |-> start, end |-> end]

NoRead == [issued |-> FALSE, start |-> 0, end |-> 0]
NoContentRange == [given |-> FALSE, first |-> 0, last |-> 0, total |-> 0]

\* The options handed to file.createReadStream for a validated range.
ReadOptions(start, end) == [issued |-> TRUE, start |-> start, end |-> end + 1]

\* The body of servePmtilesRange's try block once `meta` is known: the response
\* and the read it opens on the object store.
RangeResponse(header, meta) ==
    LET range == parseRange(header, meta.size)
    IN IF range.isNull
       THEN [status |-> 200, etag |-> meta.etag, contentLength |-> meta.size,
             contentRange |-> NoContentRange, hasBody |-> FALSE, read |-> NoRead]
       ELSE [status |-> 206, etag |-> meta.etag,
             contentLength |-> range.end - range.start + 1,
             contentRange |-> [given |-> TRUE, first |-> range.start,
                               last |-> range.end, total |-> meta.size],
             hasBody |-> TRUE, read |-> ReadOptions(range.start, range.end)]

NoBody == [state |-> "none", first |-> 0, last |-> 0 - 1]

\* What the stream of file.createReadStream({start, end}) delivers from an object
\* of `size` bytes.  The storage client sends `Range: bytes=<start>-<end>`: both
\* offsets are inclusive, and the store clips the range at the last byte.
createReadStream(size, opts) ==
    IF opts.start >= size
    THEN [state |-> "error", first |-> 0, last |-> 0 - 1]
    ELSE [state |-> "complete", first |-> opts.start,
          last |-> IF opts.end < size - 1 THEN opts.end ELSE size - 1]

BodyLength(b) == b.last - b.first + 1

TailAlphabet == {"0", "1", "2", "-", "x"}
Tails == UNION {[1..n -> TailAlphabet] : n \in 0..MaxTail}
Prefixes == {BytesPrefix, <<"x">> \o BytesPrefix, <<"b", "i", "t", "s", "=">>}
Headers ==
    {[present |-> FALSE, text |-> <<>>]}
        \cup {[present |-> TRUE, text |-> p \o t] : p \in Prefixes, t \in Tails}

NoResp == [status |-> 0, etag |-> <<>>, contentLength |-> 0,
           contentRange |-> NoContentRange, hasBody |-> FALSE, read |-> NoRead]

TheEtag == <<"etag", "object">>

InitRange ==
    /\ hdr \in Headers
    /\ objSize \in 0..MaxSize
    /\ rpc = "request"
    /\ resp = NoResp
    /\ body = NoBody

\* servePmtilesRange with the metadata already cached.
Serve ==
    /\ rpc = "request"
    /\ resp' = RangeResponse(hdr, [size |-> objSize, etag |-> TheEtag])
    /\ rpc' = IF resp'.status = 206 THEN "streaming" ELSE "done"
    /\ UNCHANGED <<hdr, objSize, body>>
    /\ UNCHANGED <<clockVars, urlVars, pmVars, tileVars, windowVars, handlerVars,
                   selectVars, encodeVars, viewerVars>>

\* The web stream of the response is read to its end.
StreamBody ==
    /\ rpc = "streaming"
    /\ body' = createReadStream(objSize, resp.read)
    /\ rpc' = "done"
    /\ UNCHANGED <<hdr, objSize, resp>>
    /\ UNCHANGED <<clockVars, urlVars, pmVars, tileVars, windowVars, handlerVars,
                   selectVars, encodeVars, viewerVars>>

NextRange == Serve \/ StreamBody

(***************************************************************************)
(* GET /api/pmtiles/[layer] (route.ts) with getFileMeta and                *)
(* servePmtilesRange (pmtiles-serve.ts), several requests in flight.       *)
(***************************************************************************)
NumClients == 1
MaxPmTicks == 2

Clients == 1..NumClients

META_TTL_MS == 300000

LayerNames == {"landcover_2016", "landcover_2024", "landcover_change",
               "single_tree_2016", "single_tree_2024", "single_tree_change"}

ALLOWED_LAYERS ==
    [l \in LayerNames |->
        CASE l = "landcover_2016" -> "vector/pmtiles/landcover_2016.pmtiles"
          [] l = "landcover_2024" -> "vector/pmtiles/landcover_2024.pmtiles"
          [] l = "landcover_change" -> "vector/pmtiles/landcover_change.pmtiles"
          [] l = "single_tree_2016" -> "vector/pmtiles/single_tree_2016.pmtiles"
          [] l = "single_tree_2024" -> "vector/pmtiles/single_tree_2024.pmtiles"
          [] l = "single_tree_change" -> "vector/pmtiles/single_tree_change.pmtiles"]

AllowedPaths == {ALLOWED_LAYERS[l] : l \in LayerNames}

\* Property names every object literal inherits from Object.prototype, with the
\* text a template literal makes of the inherited value.
InheritedText ==
    [k \in {"constructor", "toString", "__proto__"} |->
        CASE k = "constructor" -> "function Object() { [native code] }"
          [] k = "toString" -> "function toString() { [native code] }"
          [] k = "__proto__" -> "[object Object]"]

Undefined == [defined |-> FALSE, text |-> "undefined"]

\* A slip that would make the table answer for no name at all.
PropertyRead_Nothing(layer) == Undefined

\* ALLOWED_LAYERS[layer]: an own property, else one found on the prototype chain,
\* else undefined.  Every value found is truthy.
PropertyRead(layer) ==
    IF layer \in DOMAIN ALLOWED_LAYERS
    THEN [defined |-> TRUE, text |-> ALLOWED_LAYERS[layer]]
    ELSE IF layer \in DOMAIN InheritedText
         THEN [defined |-> TRUE, text |-> InheritedText[layer]]
         ELSE Undefined

GcsPrefix == "TO_GOOGLE_CLOUD"
GcsBucket == "bucket"

\* const source = { bucket, object: `${prefix}/${objectPath}` }
SourceOf(objectPath) == [bucket |-> GcsBucket, object |-> <<GcsPrefix, objectPath>>]

\* A slip in the cache key: the object is left out.
MetaKey_BucketOnly(source) == <<source.bucket>>

\* const key = `${source.bucket}/${source.object}`
MetaKey(source) == <<source.bucket>> \o source.object

\* The layers the model's clients ask for, and the objects they can lead to.
RequestLayers == {"landcover_2016", "landcover_2024", "constructor", "roads"}
StoredPaths == {ALLOWED_LAYERS["landcover_2016"], ALLOWED_LAYERS["landcover_2024"]}
PmSources == {SourceOf(PropertyRead(l).text) : l \in RequestLayers}
PmKeys == {MetaKey(src) : src \in PmSources} \cup {MetaKey_BucketOnly(src) : src \in PmSources}

PmHeaders ==
    {[present |-> FALSE, text |-> <<>>],
     [present |-> TRUE, text |-> BytesPrefix \o <<"1", "-", "2">>],
     [present |-> TRUE, text |-> BytesPrefix \o <<"4", "-">>]}

\* The bucket's content (the model's data): size and ETag of each stored object.
ObjectSize(path) == IF path = ALLOWED_LAYERS["landcover_2016"] THEN 3 ELSE 6
ObjectEtag(path) == <<"etag", path>>

\* The object after it was replaced g times: every replacement changes its size
\* and its ETag.
StoredObject(path, g) ==
    [size |-> ObjectSize(path) + g,
     etag |-> ObjectEtag(path) \o [i \in 1..g |-> "'"]]

NoMeta == [size |-> 0, etag |-> <<>>, fetchedAt |-> 0, of |-> <<>>]

\* metaCache.get(key): the entry, or undefined.
CacheGet(key) == metaCache[key]

\* A slip in the TTL test: an entry exactly TTL old still counts as fresh.
MetaFresh_Inclusive(cached, t) ==
    cached # NoMeta /\ t - cached.fetchedAt <= META_TTL_MS

\* cached && Date.now() - cached.fetchedAt < META_TTL_MS
MetaFresh(cached, t) ==
    cached # NoMeta /\ t - cached.fetchedAt < META_TTL_MS

IdleReq == [pc |-> "idle", layer |-> "", header |-> [present |-> FALSE, text |-> <<>>],
            source |-> SourceOf(""), meta |-> NoMeta]

NoOutcome == [kind |-> "none", layer |-> "", object |-> <<>>, fetched |-> FALSE,
              resp |-> NoResp, body |-> NoBody]

Outcome(kind, layer, object, fetched, response, bd) ==
    [kind |-> kind, layer |-> layer, object |-> object, fetched |-> fetched,
     resp |-> response, body |-> bd]

Status(n) == [NoResp EXCEPT !.status = n]

InitPm ==
    /\ env \in [bucketSet : BOOLEAN]
    /\ metaCache = [k \in PmKeys |-> NoMeta]
    /\ req = [c \in Clients |-> IdleReq]
    /\ outcome = NoOutcome
    /\ store = 0

\* A slip that would build the entry from two reads of the object's metadata:
\* the size from the one that just resolved, the ETag from the first content.
FetchedMeta_Torn(object, g, t) ==
    [size |-> StoredObject(object[2], g).size,
     etag |-> StoredObject(object[2], 0).etag,
     fetchedAt |-> t, of |-> object]

\* getFileMeta lines 37-45: const [metadata] = await ...getMetadata(); the entry
\* is built from that one answer.
FetchedMeta(object, g, t) ==
    [size |-> StoredObject(object[2], g).size,
     etag |-> StoredObject(object[2], g).etag,
     fetchedAt |-> t, of |-> object]

\* Lines 71-112 of servePmtilesRange once `meta` is in hand: a 200 is complete at
\* once, a 206 is returned with its body still to be streamed.
Respond(c, r, meta, fetched) ==
    LET response == RangeResponse(r.header, [size |-> meta.size, etag |-> meta.etag])
    IN /\ outcome' = Outcome("responded", r.layer, r.source.object, fetched,
                             response, NoBody)
       /\ req' = [req EXCEPT ![c] =
                     IF response.status = 206
                     THEN [r EXCEPT !.pc = "streaming", !.meta = meta]
                     ELSE IdleReq]

\* GET(request, {params}) up to the first suspension: the allow-list test, the
\* environment reads, and getFileMeta's look into the cache.
GET(c, layer, header) ==
    /\ req[c].pc = "idle"
    /\ LET objectPath == PropertyRead(layer)
           source == SourceOf(objectPath.text)
           cached == CacheGet(MetaKey(source))
           r == [IdleReq EXCEPT !.layer = layer, !.header = header, !.source = source]
       IN IF ~objectPath.defined
          THEN /\ outcome' = Outcome("responded", layer, <<>>, FALSE, Status(404), NoBody)
               /\ UNCHANGED <<metaCache, req>>
          ELSE IF ~env.bucketSet
          THEN \* getGcsBucket() throws outside any try block
               /\ outcome' = Outcome("uncaught", layer, <<>>, FALSE, NoResp, NoBody)
               /\ UNCHANGED <<metaCache, req>>
          ELSE IF MetaFresh(cached, now)
          THEN /\ Respond(c, r, cached, FALSE)
               /\ UNCHANGED metaCache
          ELSE /\ req' = [req EXCEPT ![c] = [r EXCEPT !.pc = "meta"]]
               /\ UNCHANGED <<metaCache, outcome>>
    /\ UNCHANGED <<env, store>>
    /\ UNCHANGED <<clockVars, urlVars, rangeVars, tileVars, windowVars, handlerVars,
                   selectVars, encodeVars, viewerVars>>

\* await getMetadata() resolves: the entry is built, cached and used.
MetaDone(c) ==
    /\ req[c].pc = "meta"
    /\ req[c].source.object[2] \in StoredPaths
    /\ LET meta == FetchedMeta(req[c].source.object, store, now)
       IN /\ metaCache' = [metaCache EXCEPT ![MetaKey(req[c].source)] = meta]
          /\ Respond(c, req[c], meta, TRUE)
    /\ UNCHANGED <<env, store>>
    /\ UNCHANGED <<clockVars, urlVars, rangeVars, tileVars, windowVars, handlerVars,
                   selectVars, encodeVars, viewerVars>>

\* await getMetadata() rejects (no such object, credentials, network): the catch
\* block answers 500 with the error's message.
MetaFail(c) ==
    /\ req[c].pc = "meta"
    /\ outcome' = Outcome("responded", req[c].layer, req[c].source.object, TRUE,
                          Status(500), NoBody)
    /\ req' = [req EXCEPT ![c] = IdleReq]
    /\ UNCHANGED <<env, metaCache, store>>
    /\ UNCHANGED <<clockVars, urlVars, rangeVars, tileVars, windowVars, handlerVars,
                   selectVars, encodeVars, viewerVars>>

\* The response whose body client c is streaming.
StreamingResponse(c) ==
    RangeResponse(req[c].header, [size |-> req[c].meta.size, etag |-> req[c].meta.etag])

\* The 206 body is read to its end from the object in the bucket.
StreamDone(c) ==
    /\ req[c].pc = "streaming"
    /\ outcome' = Outcome("streamed", req[c].layer, req[c].source.object, FALSE,
                          StreamingResponse(c),
                          createReadStream(StoredObject(req[c].source.object[2],
                                                        store).size,
                                           StreamingResponse(c).read))
    /\ req' = [req EXCEPT ![c] = IdleReq]
    /\ UNCHANGED <<env, metaCache, store>>
    /\ UNCHANGED <<clockVars, urlVars, rangeVars, tileVars, windowVars, handlerVars,
                   selectVars, encodeVars, viewerVars>>

\* The remote read fails while the 206 is already on its way: the stream errors
\* after servePmtilesRange has returned, outside its try block.
StreamFail(c) ==
    /\ req[c].pc = "streaming"
    /\ outcome' = Outcome("streamed", req[c].layer, req[c].source.object, FALSE,
                          StreamingResponse(c),
                          [state |-> "error", first |-> 0, last |-> 0 - 1])
    /\ req' = [req EXCEPT ![c] = IdleReq]
    /\ UNCHANGED <<env, metaCache, store>>
    /\ UNCHANGED <<clockVars, urlVars, rangeVars, tileVars, windowVars, handlerVars,
                   selectVars, encodeVars, viewerVars>>

PmTickSizes == {1, META_TTL_MS - 1}

PmTick ==
    /\ ticks < MaxPmTicks
    /\ \E d \in PmTickSizes : now' = now + d
    /\ ticks' = ticks + 1
    /\ UNCHANGED <<urlVars, rangeVars, pmVars, tileVars, windowVars, handlerVars,
                   selectVars, encodeVars, viewerVars>>

NextPm ==
    \/ \E c \in Clients, layer \in RequestLayers, header \in PmHeaders :
          GET(c, layer, header)
    \/ \E c \in Clients : MetaDone(c)
    \/ \E c \in Clients : MetaFail(c)
    \/ \E c \in Clients : StreamDone(c)
    \/ \E c \in Clients : StreamFail(c)
    \/ PmTick

(***************************************************************************)
(* Concurrent range requests for one PMTiles object whose content is       *)
(* replaced while they run.                                                *)
(***************************************************************************)
NumRacers == 2
MaxPuts == 1

Racers == 1..NumRacers

RaceLayer == "landcover_2016"
RaceHeaders == {h \in PmHeaders : h.present}

InitRace ==
    /\ env = [bucketSet |-> TRUE]
    /\ metaCache = [k \in PmKeys |-> NoMeta]
    /\ req = [c \in Racers |-> IdleReq]
    /\ outcome = NoOutcome
    /\ store = 0

\* The pipeline replaces the object in the bucket: new size, new ETag.
StorePut ==
    /\ store < MaxPuts
    /\ store' = store + 1
    /\ UNCHANGED <<env, metaCache, req, outcome>>
    /\ UNCHANGED <<clockVars, urlVars, rangeVars, tileVars, windowVars, handlerVars,
                   selectVars, encodeVars, viewerVars>>

NextRace ==
    \/ \E c \in Racers, header \in RaceHeaders : GET(c, RaceLayer, header)
    \/ \E c \in Racers : MetaDone(c)
    \/ \E c \in Racers : MetaFail(c)
    \/ \E c \in Racers : StreamDone(c)
    \/ \E c \in Racers : StreamFail(c)
    \/ StorePut
    \/ PmTick

(***************************************************************************)
(* Both caches of the process side by side: lookups of signed URLs by the  *)
(* first and the last caller, and whole-object requests for one PMTiles    *)
(* layer by the first client.                                              *)
(***************************************************************************)
NextCaches ==
    \/ \E c \in {1, NumCallers}, year \in Years : getCogSignedUrl(c, year)
    \/ \E c \in {1, NumCallers} : IssueDone(c)
    \/ \E c \in {1, NumCallers} : IssueFail(c)
    \/ GET(1, "landcover_2016", [present |-> FALSE, text |-> <<>>])
    \/ MetaDone(1)
    \/ MetaFail(1)
    \/ PmTick

(***************************************************************************)
(* Web-Mercator tile geometry: tileBounds (route.ts, tile.js).             *)
(*                                                                         *)
(* size = (2 * ORIGIN_SHIFT) / (1 << z) is an exact power-of-two fraction  *)
(* of ORIGIN_SHIFT.  The model keeps the results exact in integers by      *)
(* measuring the bounds of a tile of zoom z in units of                    *)
(* ORIGIN_SHIFT / UnitsPerShift(1 << z): ORIGIN_SHIFT is UnitsPerShift     *)
(* units and size is 2, 1 or -1 units.                                     *)
(***************************************************************************)
MaxZoom == 33
MaxIndex == 2

\* JavaScript's 1 << z: the count is taken modulo 32, the result is a signed
\* 32-bit integer, so 1 << 31 is -2147483648.
ShiftLeftOne(z) ==
    LET count == z % 32
    IN IF count = 31 THEN (0 - 2^30) - 2^30 ELSE 2^count

Abs(v) == IF v < 0 THEN 0 - v ELSE v

\* Number of model units in ORIGIN_SHIFT for a tile count n = 1 << z.
UnitsPerShift(n) == IF n = 1 THEN 1 ELSE Abs(n \div 2)

\* (2 * ORIGIN_SHIFT) / n in those units (the quotient is exact).
TileSize(n) == IF n = 1 THEN 2 ELSE UnitsPerShift(n) \div (n \div 2)

\* tileBounds(z, x, y): [west, south, east, north].
tileBounds(z, x, y) ==
    LET n == ShiftLeftOne(z)
        ORIGIN_SHIFT == UnitsPerShift(n)
        size == TileSize(n)
    IN [west  |-> (0 - ORIGIN_SHIFT) + x * size,
        south |-> ORIGIN_SHIFT - (y + 1) * size,
        east  |-> (0 - ORIGIN_SHIFT) + (x + 1) * size,
        north |-> ORIGIN_SHIFT - y * size,
        shift |-> ORIGIN_SHIFT]

\* 0 <= v < 2^z.  Every index the model can hold is below 2^z once z > 30.
ValidIndex(z, v) == v >= 0 /\ (IF z > 30 THEN TRUE ELSE v < 2^z)

\* The indices tried at zoom z: the first ones and, where 2^z can be held, the
\* last ones.
IndexSamples(z) ==
    {v \in (0..MaxIndex) \cup (IF z <= 30 THEN (2^z - 2)..(2^z - 1) ELSE {}) :
        ValidIndex(z, v)}

NoBounds == [west |-> 0, south |-> 0, east |-> 0, north |-> 0, shift |-> 0]

InitTile ==
    /\ tile \in {[z |-> z, x |-> x, y |-> y] :
                    z \in 0..MaxZoom, x \in 0..MaxIndex, y \in 0..MaxIndex}
             \cup UNION {{[z |-> z, x |-> x, y |-> y] :
                            x \in IndexSamples(z), y \in IndexSamples(z)} :
                         z \in 0..MaxZoom}
    /\ ValidIndex(tile.z, tile.x)
    /\ ValidIndex(tile.z, tile.y)
    /\ tpc = "request"
    /\ bounds = NoBounds

\* const [tW, tS, tE, tN] = tileBounds(z, x, y)
ComputeBounds ==
    /\ tpc = "request"
    /\ bounds' = tileBounds(tile.z, tile.x, tile.y)
    /\ tpc' = "bounds"
    /\ UNCHANGED tile
    /\ UNCHANGED <<clockVars, urlVars, rangeVars, pmVars, windowVars, handlerVars,
                   selectVars, encodeVars, viewerVars>>

NextTile == ComputeBounds

(***************************************************************************)
(* Pixel window and output placement of the tile handler (route.ts GET,    *)
(* steps 5-10; the earlier variant of tile.js and part_002).               *)
(*                                                                         *)
(* Fractional pixel coordinates are exact rationals [n, d] with d > 0.     *)
(***************************************************************************)
TILE_SIZE == 256

MaxSlack == 6

Max(a, b) == IF a >= b THEN a ELSE b
Min(a, b) == IF a <= b THEN a ELSE b

Ratio(n, d) == IF d < 0 THEN [n |-> 0 - n, d |-> 0 - d] ELSE [n |-> n, d |-> d]

\* r * (a / b), r - s, r / s and k * r.
Times(r, a, b) == Ratio(r.n * a, r.d * b)
Minus(r, s) ==
    IF r.d = s.d THEN Ratio(r.n - s.n, r.d)
                 ELSE Ratio(r.n * s.d - s.n * r.d, r.d * s.d)
Over(r, s) == Ratio(r.n * s.d, r.d * s.n)
Scaled(k, r) == Ratio(k * r.n, r.d)

\* A slip that would round the left/top edge to the nearest pixel.
Floor_Nearest(r) == (2 * r.n + r.d) \div (2 * r.d)

\* Math.floor, Math.ceil and Math.round (round half up: floor(v + 1/2)).
Floor(r) == r.n \div r.d
Ceil(r) == 0 - ((0 - r.n) \div r.d)
Round(r) == (2 * r.n + r.d) \div (2 * r.d)

\* The images of the COG: the main image (index 1 here, 0 in the code) and its
\* overviews, each half the size of the one before.
Levels == <<[w |-> 512, h |-> 768], [w |-> 256, h |-> 384], [w |-> 128, h |-> 192]>>

mainW == Levels[1].w
mainH == Levels[1].h

\* fL, fT, fR, fB of step 5 from the tile bounds b and the georeference g of an
\* image (origin oX, oY and resolution rX, rY, in the units of b).
PixelRegion(b, g) ==
    [fL |-> Ratio(b.west - g.oX, g.rX),
     fT |-> Ratio(b.north - g.oY, g.rY),
     fR |-> Ratio(b.east - g.oX, g.rX),
     fB |-> Ratio(b.south - g.oY, g.rY)]

fW(p) == Minus(p.fR, p.fL)
fH(p) == Minus(p.fB, p.fT)

\* if (fR <= 0 || fB <= 0 || fL >= mainW || fT >= mainH)
OutsideExtent(p) ==
    \/ p.fR.n <= 0
    \/ p.fB.n <= 0
    \/ p.fL.n >= mainW * p.fL.d
    \/ p.fT.n >= mainH * p.fT.d

\* A slip that would take the last readable overview whatever it gives per tile.
BestLevel_Coarsest(p, bad) ==
    LET usable == {i \in 2..Len(Levels) : i \notin bad}
    IN IF usable = {} THEN 1 ELSE CHOOSE i \in usable : \A j \in usable : j <= i

\* Step 6: the last overview i (not a bad one) with
\* Math.abs(fW) * (ovrW / mainW) >= TILE_SIZE, else the main image.
BestLevel(p, bad) ==
    LET width == fW(p)
        usable == {i \in 2..Len(Levels) :
                     /\ i \notin bad
                     /\ Abs(width.n) * Levels[i].w >= TILE_SIZE * width.d * mainW}
    IN IF usable = {} THEN 1 ELSE CHOOSE i \in usable : \A j \in usable : j <= i

\* Step 7: the clamped window on the chosen level.
Window(p, best) ==
    LET bestW == Levels[best].w
        bestH == Levels[best].h
    IN [cL |-> Max(0, Floor(Times(p.fL, bestW, mainW))),
        cT |-> Max(0, Floor(Times(p.fT, bestH, mainH))),
        cR |-> Min(bestW, Ceil(Times(p.fR, bestW, mainW))),
        cB |-> Min(bestH, Ceil(Times(p.fB, bestH, mainH)))]

\* A slip that would test the columns only.
EmptyWindow_ColumnsOnly(w) == w.cR <= w.cL

\* if (cR <= cL || cB <= cT)
EmptyWindow(w) == w.cR <= w.cL \/ w.cB <= w.cT

\* Step 10: outX, outY, outW, outH.
OutputPlacement(p, w, best) ==
    LET bestW == Levels[best].w
        bestH == Levels[best].h
        readW == w.cR - w.cL
        readH == w.cB - w.cT
        outX == Max(0, Round(Scaled(TILE_SIZE,
                    Over(Minus(Ratio(w.cL * mainW, bestW), p.fL), fW(p)))))
        outY == Max(0, Round(Scaled(TILE_SIZE,
                    Over(Minus(Ratio(w.cT * mainH, bestH), p.fT), fH(p)))))
    IN [outX |-> outX,
        outY |-> outY,
        outW |-> Min(TILE_SIZE - outX,
                     Max(1, Round(Scaled(TILE_SIZE,
                        Over(Ratio(readW, 1), Times(fW(p), bestW, mainW)))))),
        outH |-> Min(TILE_SIZE - outY,
                     Max(1, Round(Scaled(TILE_SIZE,
                        Over(Ratio(readH, 1), Times(fH(p), bestH, mainH))))))]

\* tile.js step 4 (part_002 likewise): the loop over the overviews.  res[1] is
\* getResolution()[0] of image 0, res[i + 1] that of image i; img is the image
\* held so far and imgRes its resolution.
RECURSIVE SelectLoop(_, _, _, _)
SelectLoop(res, neededRes, i, img) ==
    IF i > Len(res) THEN img
    ELSE LET candRes == Abs(res[i])
             imgRes == Abs(res[img])
         IN IF candRes * 2 * neededRes.d <= neededRes.n * 3 /\ candRes > imgRes
            THEN SelectLoop(res, neededRes, i + 1, i)
            ELSE SelectLoop(res, neededRes, i + 1, img)

\* A slip that would keep every overview within the tolerance, so that the last
\* one of them wins.
SelectByResolution_LastFit(res, neededRes) ==
    LET fits == {i \in 2..Len(res) :
                    Abs(res[i]) * 2 * neededRes.d <= neededRes.n * 3}
    IN IF fits = {} THEN 1 ELSE CHOOSE i \in fits : \A j \in fits : j <= i

\* let img = await tiff.getImage(0); for (let i = 1; i < count; i++) { ... }
SelectByResolution(res, neededRes) == SelectLoop(res, neededRes, 2, 1)

\* tile.js and part_002: the georeference of level i, as getOrigin() and
\* getResolution() report it for an overview of the same extent.
LevelGeo(g, i) ==
    [oX |-> g.oX, oY |-> g.oY,
     rX |-> (g.rX * mainW) \div Levels[i].w,
     rY |-> (g.rY * mainH) \div Levels[i].h]

\* tile.js step 4: the coarsest image with candRes <= neededRes * 1.5, where
\* neededRes = (tE - tW) / TILE_SIZE; the main image if there is none.
LegacyLevel(b, g) ==
    SelectByResolution([i \in 1..Len(Levels) |-> LevelGeo(g, i).rX],
                       Ratio(b.east - b.west, TILE_SIZE))

\* tile.js step 5: the clamped window, in the pixels of the chosen image.
LegacyWindow(p, level) ==
    [cL |-> Max(0, Floor(p.fL)),
     cT |-> Max(0, Floor(p.fT)),
     cR |-> Min(Levels[level].w, Ceil(p.fR)),
     cB |-> Min(Levels[level].h, Ceil(p.fB))]

\* tile.js: outW, outH, outX, outY.
LegacyPlacement(p, w) ==
    [outX |-> Max(0, Round(Scaled(TILE_SIZE, Over(Minus(Ratio(w.cL, 1), p.fL), fW(p))))),
     outY |-> Max(0, Round(Scaled(TILE_SIZE, Over(Minus(Ratio(w.cT, 1), p.fT), fH(p))))),
     outW |-> Max(1, Round(Scaled(TILE_SIZE, Over(Ratio(w.cR - w.cL, 1), fW(p))))),
     outH |-> Max(1, Round(Scaled(TILE_SIZE, Over(Ratio(w.cB - w.cT, 1), fH(p)))))]

(***************************************************************************)
(* The window computation on its own: a tile of any size at any position   *)
(* relative to the raster, in units of half a pixel of the main image.     *)
(***************************************************************************)
\* mainImg.getOrigin() and mainImg.getResolution(): the raster spans
\* [0, 2 * mainW] x [-2 * mainH, 0].
WindowGeo == [oX |-> 0, oY |-> 0, rX |-> 2, rY |-> 0 - 2]

\* Tile edge lengths: below one pixel, a few pixels, 256, 384, 512 and 1024
\* pixels.
TileEdges == {1, 2, 3, 5, 2 * TILE_SIZE, 3 * TILE_SIZE, 4 * TILE_SIZE, 8 * TILE_SIZE}

\* West edges tried for a tile of edge s: around the position where the tile
\* leaves the raster on the left, around the raster's left edge and around its
\* right edge.
WestEdges(s) ==
    UNION {{k - s, k, 2 * mainW - k} : k \in (0 - 1)..MaxSlack}

\* North edges tried, likewise (the raster lies below its origin).
NorthEdges(s) ==
    UNION {{s - k, 0 - k, k - 2 * mainH} : k \in (0 - 1)..MaxSlack}

TileAt(west, north, s) ==
    [west |-> west, south |-> north - s, east |-> west + s, north |-> north,
     shift |-> 0]

NoRegion == PixelRegion(NoBounds, WindowGeo)
NoWindow == [cL |-> 0, cT |-> 0, cR |-> 0, cB |-> 0]
NoPlacement == [outX |-> 0, outY |-> 0, outW |-> 0, outH |-> 0]
NoCalc == [region |-> NoRegion, level |-> 1, window |-> NoWindow,
           read |-> FALSE, placement |-> NoPlacement, path |-> "none"]

InitWindow ==
    /\ scene \in {[variant |-> v, bounds |-> TileAt(west, north, s), bad |-> bad] :
                    v \in {"route", "tile.js"}, s \in TileEdges,
                    west \in UNION {WestEdges(e) : e \in TileEdges},
                    north \in UNION {NorthEdges(e) : e \in TileEdges},
                    bad \in {{}, {Len(Levels)}}}
    /\ scene.bounds.west \in WestEdges(scene.bounds.east - scene.bounds.west)
    /\ scene.bounds.north \in NorthEdges(scene.bounds.east - scene.bounds.west)
    /\ wpc = "tile"
    /\ calc = NoCalc

\* The level the variant reads, its pixel region and its clamped window.
Located(variant, b, g, bad) ==
    IF variant = "route"
    THEN LET p == PixelRegion(b, g)
             best == BestLevel(p, bad)
         IN [region |-> p, level |-> best, window |-> Window(p, best)]
    ELSE LET level == LegacyLevel(b, g)
             p == PixelRegion(b, LevelGeo(g, level))
         IN [region |-> p, level |-> level, window |-> LegacyWindow(p, level)]

\* Whether the variant answers with the transparent tile without reading.
ShortCircuits(variant, loc) ==
    \/ variant = "route" /\ OutsideExtent(loc.region)
    \/ EmptyWindow(loc.window)

Placed(variant, loc) ==
    IF variant = "route" THEN OutputPlacement(loc.region, loc.window, loc.level)
                         ELSE LegacyPlacement(loc.region, loc.window)

\* Whether the loop over the overviews throws: tile.js calls getImage(i) and
\* getResolution() for every overview with no try block of its own; route.ts
\* wraps each round in try { ... } catch { /* skip bad overviews */ }.
OverviewLoopThrows(variant, bad) == variant = "tile.js" /\ bad # {}

\* Steps 5-7: pixel coordinates, level and clamped window.
LocateWindow ==
    /\ wpc = "tile"
    /\ IF OverviewLoopThrows(scene.variant, scene.bad)
       THEN wpc' = "failed" /\ UNCHANGED calc
       ELSE LET loc == Located(scene.variant, scene.bounds, WindowGeo, scene.bad)
            IN /\ calc' = IF scene.variant = "route" /\ OutsideExtent(loc.region)
                           THEN [calc EXCEPT !.region = loc.region]
                           ELSE [calc EXCEPT !.region = loc.region,
                                             !.level = loc.level,
                                             !.window = loc.window]
               /\ wpc' = IF ShortCircuits(scene.variant, loc) THEN "transparent"
                                                             ELSE "window"
    /\ UNCHANGED scene
    /\ UNCHANGED <<clockVars, urlVars, rangeVars, pmVars, tileVars, handlerVars,
                   selectVars, encodeVars, viewerVars>>

\* Step 8: readRasters({ window: [cL, cT, cR, cB] }).
ReadWindow ==
    /\ wpc = "window"
    /\ calc' = [calc EXCEPT !.read = TRUE]
    /\ wpc' = "read"
    /\ UNCHANGED scene
    /\ UNCHANGED <<clockVars, urlVars, rangeVars, pmVars, tileVars, handlerVars,
                   selectVars, encodeVars, viewerVars>>

\* outW === TILE_SIZE && outH === TILE_SIZE && outX === 0 && outY === 0
FillsCanvas(pl) ==
    pl.outW = TILE_SIZE /\ pl.outH = TILE_SIZE /\ pl.outX = 0 /\ pl.outY = 0

\* Step 10: the placement of the pixels read on the 256 x 256 canvas, and the
\* way the PNG is made of them.
PlaceOutput ==
    /\ wpc = "read"
    /\ LET pl == Placed(scene.variant, calc)
       IN calc' = [calc EXCEPT !.placement = pl,
                               !.path = IF FillsCanvas(pl) THEN "direct"
                                                           ELSE "composite"]
    /\ wpc' = "placed"
    /\ UNCHANGED scene
    /\ UNCHANGED <<clockVars, urlVars, rangeVars, pmVars, tileVars, handlerVars,
                   selectVars, encodeVars, viewerVars>>

NextWindow == LocateWindow \/ ReadWindow \/ PlaceOutput

(***************************************************************************)
(* The resolution-based selector on its own: any list of levels, in any    *)
(* order, and any target resolution (in halves of the unit of the levels). *)
(***************************************************************************)
MaxLevels == 4
MaxRes == 4

LevelLists == UNION {[1..n -> 1..MaxRes] : n \in 1..MaxLevels}
Targets == {Ratio(n, 2) : n \in (0 - 1)..(2 * MaxRes + 1)}

InitSelect ==
    /\ pick \in [res : LevelLists, neededRes : Targets, pc : {"levels"}, img : {1}]

\* Step 4 of tile.js for the levels and the target of the request.
SelectLevel ==
    /\ pick.pc = "levels"
    /\ pick' = [pick EXCEPT !.pc = "chosen",
                            !.img = SelectByResolution(pick.res, pick.neededRes)]
    /\ UNCHANGED <<clockVars, urlVars, rangeVars, pmVars, tileVars, windowVars,
                   handlerVars, encodeVars, viewerVars>>

NextSelect == SelectLevel

(***************************************************************************)
(* From the pixels read to the encoder (route.ts step 9, part_001 step 6,  *)
(* tile.js step 6).  readRasters({interleave: true}) gives the samples     *)
(* pixel by pixel, band by band; a sample is named by its pixel, its band  *)
(* and the way its value was made.                                         *)
(***************************************************************************)
MaxBands == 5
MaxRead == 2

\* The k-th sample (from 0) of the interleaved data of a source of `bands` bands.
SourceSample(k, bands) == [pixel |-> k \div bands, band |-> k % bands, via |-> "copy"]

\* part_001 lines 243-257: rgbBuffer[i * 3 + j].
RgbSample(i, j, bands, photometric) ==
    IF photometric = 6 /\ bands >= 3
    THEN [pixel |-> i, band |-> j, via |-> "ycbcr"]
    ELSE IF bands >= 3
         THEN [pixel |-> i, band |-> 2 - j, via |-> "copy"]
         ELSE [pixel |-> i, band |-> 0, via |-> "copy"]

\* What sharp(buffer, { raw: { width, height, channels } }) is given.
EncoderInput(variant, bands, photometric, pixelCount) ==
    CASE variant = "route" ->
            \* channels = Math.min(bandCount, 4);
            \* pixelData = Buffer.from(raw.buffer, raw.byteOffset, pixelCount * channels)
            LET channels == Min(bands, 4)
            IN [channels |-> channels,
                data |-> [k \in 1..(pixelCount * channels) |-> SourceSample(k - 1, bands)]]
      [] variant = "part_001" ->
            [channels |-> 3,
             data |-> [k \in 1..(pixelCount * 3) |->
                         RgbSample((k - 1) \div 3, (k - 1) % 3, bands, photometric)]]
      [] variant = "tile.js" ->
            \* channels = img.getSamplesPerPixel(); dataBuffer = Buffer.from(rasters)
            [channels |-> bands,
             data |-> [k \in 1..(pixelCount * bands) |-> SourceSample(k - 1, bands)]]

NoRaster == [variant |-> "route", bands |-> 1, photometric |-> 1, w |-> 1, h |-> 1,
             pc |-> "parked", channels |-> 0, data |-> <<>>]

InitEncode ==
    /\ raster \in {[NoRaster EXCEPT !.variant = v, !.bands = b, !.photometric = ph,
                                    !.w = w, !.h = h, !.pc = "read"] :
                     v \in {"route", "part_001", "tile.js"}, b \in 1..MaxBands,
                     ph \in {1, 2, 6}, w \in 1..MaxRead, h \in 1..MaxRead}

\* The pixels read are handed to the encoder.
EncodePixels ==
    /\ raster.pc = "read"
    /\ LET input == EncoderInput(raster.variant, raster.bands, raster.photometric,
                                 raster.w * raster.h)
       IN raster' = [raster EXCEPT !.pc = "encoded", !.channels = input.channels,
                                   !.data = input.data]
    /\ UNCHANGED <<clockVars, urlVars, rangeVars, pmVars, tileVars, windowVars,
                   handlerVars, selectVars, viewerVars>>

NextEncode == EncodePixels

(***************************************************************************)
(* The tile handler: GET /api/tile (route.ts lines 81-317).  SpecHandler   *)
(* takes the queries that carry neither test=1 nor debug=1, SpecModes all  *)
(* three modes.  A query value is a sequence of characters; the year is    *)
(* kept as a string.                                                       *)
(***************************************************************************)
NaN == [nan |-> TRUE, value |-> 0]

\* parseInt(searchParams.get(k) ?? '', 10): an optional sign and the leading
\* decimal digits; NaN when there is no digit.
QueryInt(text) ==
    LET signed == Len(text) > 0 /\ text[1] \in {"-", "+"}
        rest == IF signed THEN Tail(text) ELSE text
        n == LeadingDigits(rest)
        magnitude == parseInt(SubSeq(rest, 1, n))
    IN IF n = 0 THEN NaN
       ELSE [nan |-> FALSE,
             value |-> IF signed /\ text[1] = "-" THEN 0 - magnitude ELSE magnitude]

\* COG_FILES[year]: an own property, else one found on the prototype chain, else
\* undefined.
CogFile(year) ==
    IF year \in DOMAIN COG_FILES
    THEN [defined |-> TRUE, text |-> COG_FILES[year]]
    ELSE IF year \in DOMAIN InheritedText
         THEN [defined |-> TRUE, text |-> InheritedText[year]]
         ELSE Undefined

\* if (!COG_FILES[year] || [z, x, y].some(isNaN))
Rejected(year, z, x, y) ==
    \/ ~CogFile(year).defined
    \/ z.nan \/ x.nan \/ y.nan

YearTexts == {"2017", "2024", "constructor", "1999", ""}
ZoomTexts == {<<>>, <<"0">>, <<"2">>, <<"3">>, <<"3", "1">>, <<"-", "1">>,
              <<"1", ".", "5">>, <<"a">>}
IndexTexts == {<<>>, <<"0">>, <<"1">>, <<"5">>, <<"-", "1">>, <<"x">>}

\* The georeference of the COG: pixels of ORIGIN_SHIFT / (2 * mainW), the origin
\* half a pixel inside the north-west corner of the world.  GeoShift is the
\* number of half pixels in ORIGIN_SHIFT.
GeoShift == 4 * mainW

\* The unit (per ORIGIN_SHIFT) in which both the tile and the raster are whole.
CommonUnit(b) == Max(b.shift, GeoShift)

InUnit(b, unit) ==
    LET k == unit \div b.shift
    IN [west |-> b.west * k, south |-> b.south * k, east |-> b.east * k,
        north |-> b.north * k, shift |-> unit]

\* mainImg.getOrigin() and mainImg.getResolution() in that unit.
HandlerGeo(unit) ==
    LET k == unit \div GeoShift
    IN [oX |-> (1 - GeoShift) * k, oY |-> (GeoShift - 1) * k,
        rX |-> 2 * k, rY |-> 0 - 2 * k]

LongCache == "public, s-maxage=86400, max-age=3600"

\* const EMPTY_PNG: the 1x1 transparent PNG.
EMPTY_PNG == [w |-> 1, h |-> 1]
NoImage == [w |-> 0, h |-> 0]

NoAnswer == [status |-> 0, type |-> "", cache |-> "", image |-> NoImage, via |-> "none"]

\* NextResponse.json({ error: 'Uso: ...' }, { status: 400 })
BadRequest ==
    [status |-> 400, type |-> "application/json", cache |-> "", image |-> NoImage,
     via |-> "invalid"]

\* A slip that would send the transparent tile of steps 5 and 7 uncached.
TransparentTile_NoCache(via) ==
    [status |-> 200, type |-> "image/png", cache |-> "no-cache", image |-> EMPTY_PNG,
     via |-> "failure"]

\* new NextResponse(EMPTY_PNG, { headers: { ..., 'Cache-Control': 'public, ...' } })
TransparentTile(via) ==
    [status |-> 200, type |-> "image/png", cache |-> LongCache, image |-> EMPTY_PNG,
     via |-> via]

\* verbose: NextResponse.json({ step: '9-passthrough', ... })
Diagnostic ==
    [status |-> 200, type |-> "application/json", cache |-> "", image |-> NoImage,
     via |-> "diagnostic"]

\* new NextResponse(new Uint8Array(png), { headers: ... })
Rendered(w, h) ==
    [status |-> 200, type |-> "image/png", cache |-> LongCache,
     image |-> [w |-> w, h |-> h], via |-> "rendered"]

\* A slip that would answer every failure with the JSON of the verbose mode.
FailureResponse_AlwaysJson(verbose) ==
    [status |-> 500, type |-> "application/json", cache |-> "", image |-> NoImage,
     via |-> "failure"]

\* A slip that would send the failure tile with the directive of a success.
FailureResponse_LongCache(verbose) ==
    [status |-> 200, type |-> "image/png", cache |-> LongCache, image |-> EMPTY_PNG,
     via |-> "failure"]

\* The catch block: JSON with status 500 when verbose, else EMPTY_PNG, no-cache.
FailureResponse(verbose) ==
    IF verbose
    THEN [status |-> 500, type |-> "application/json", cache |-> "",
          image |-> NoImage, via |-> "failure"]
    ELSE [status |-> 200, type |-> "image/png", cache |-> "no-cache",
          image |-> EMPTY_PNG, via |-> "failure"]

NoWork ==
    [z |-> NaN, x |-> NaN, y |-> NaN, issued |-> FALSE, remote |-> FALSE,
     evaluated |-> FALSE, bounds |-> NoBounds, region |-> NoRegion, level |-> 1,
     window |-> NoWindow, read |-> FALSE, placement |-> NoPlacement,
     failed |-> FALSE, signed |-> <<>>, key |-> ""]

InitHandler ==
    /\ query \in [year : YearTexts, z : ZoomTexts, x : IndexTexts, y : IndexTexts,
                  verbose : BOOLEAN, warm : BOOLEAN, mode : {"normal"},
                  variant : {"route"}]
    /\ gpc = "request"
    /\ work = NoWork
    /\ answer = NoAnswer

\* Lines 138-151: the parameters are read and checked.
TileValidate ==
    /\ gpc = "request"
    /\ query.mode = "normal"
    /\ LET z == QueryInt(query.z)
           x == QueryInt(query.x)
           y == QueryInt(query.y)
       IN /\ work' = [work EXCEPT !.z = z, !.x = x, !.y = y]
          /\ IF Rejected(query.year, z, x, y)
             THEN gpc' = "done" /\ answer' = BadRequest
             ELSE gpc' = "url" /\ UNCHANGED answer
    /\ UNCHANGED query
    /\ UNCHANGED <<clockVars, urlVars, rangeVars, pmVars, tileVars, windowVars,
                   selectVars, encodeVars, viewerVars>>

\* urlCache[year] && now - urlCacheTime < 3_000_000, for a process whose cache is
\* warm (both years issued a moment ago) or cold (nothing issued yet).
CachedUrlFound(year, warm) ==
    warm /\ (year \in DOMAIN COG_FILES \/ year \in DOMAIN InheritedText)

\* The object a URL is signed for: `${prefix}/${COG_FILES[year]}` in route.ts,
\* `TO_GOOGLE_CLOUD/raster/satellite_${year}_cog.tif` in tile.js.
CogObject(variant, year) ==
    IF variant = "route" THEN <<GcsPrefix, CogFile(year).text>>
    ELSE <<"TO_GOOGLE_CLOUD/raster/satellite_", year, "_cog.tif">>

\* getCogSignedUrl(year) (getCogUrl in tile.js) that resolves: the cached
\* value, or a URL signed for the object of `year` and stored as
\* urlCache[year].
Signing(variant, year, warm) ==
    IF CachedUrlFound(year, warm)
    THEN [issued |-> FALSE, signed |-> <<>>, key |-> ""]
    ELSE [issued |-> TRUE, signed |-> CogObject(variant, year), key |-> year]

\* Step 1: await getCogSignedUrl(year) returns the cached value or a new URL.
TileSignedUrl ==
    /\ gpc = "url"
    /\ LET s == Signing(query.variant, query.year, query.warm)
       IN work' = [work EXCEPT !.issued = s.issued, !.signed = s.signed,
                               !.key = s.key]
    /\ gpc' = "open"
    /\ UNCHANGED <<query, answer>>
    /\ UNCHANGED <<clockVars, urlVars, rangeVars, pmVars, tileVars, windowVars,
                   selectVars, encodeVars, viewerVars>>

\* Step 2: await fromUrl(cogUrl) reads the header of the COG.
TileOpen ==
    /\ gpc = "open"
    /\ work' = [work EXCEPT !.remote = TRUE]
    /\ gpc' = "image"
    /\ UNCHANGED <<query, answer>>
    /\ UNCHANGED <<clockVars, urlVars, rangeVars, pmVars, tileVars, windowVars,
                   selectVars, encodeVars, viewerVars>>

\* Steps 3-5: the main image, tileBounds(z, x, y), the pixel coordinates and the
\* test for a tile outside the raster.
TileLocate ==
    /\ gpc = "image"
    /\ LET b == tileBounds(work.z.value, work.x.value, work.y.value)
           unit == CommonUnit(b)
           p == PixelRegion(InUnit(b, unit), HandlerGeo(unit))
       IN /\ work' = [work EXCEPT !.evaluated = TRUE, !.bounds = b, !.region = p]
          /\ IF OutsideExtent(p)
             THEN gpc' = "done" /\ answer' = TransparentTile("outside")
             ELSE gpc' = "overviews" /\ UNCHANGED answer
    /\ UNCHANGED query
    /\ UNCHANGED <<clockVars, urlVars, rangeVars, pmVars, tileVars, windowVars,
                   selectVars, encodeVars, viewerVars>>

\* Steps 6-7: the overviews are tried (a bad one is skipped), the window is
\* clamped on the chosen level, and an empty window ends the request.
TileOverviews ==
    /\ gpc = "overviews"
    /\ \E bad \in SUBSET (2..Len(Levels)) :
          LET best == BestLevel(work.region, bad)
              w == Window(work.region, best)
          IN /\ work' = [work EXCEPT !.level = best, !.window = w]
             /\ IF EmptyWindow(w)
                THEN gpc' = "done" /\ answer' = TransparentTile("empty")
                ELSE gpc' = "read" /\ UNCHANGED answer
    /\ UNCHANGED query
    /\ UNCHANGED <<clockVars, urlVars, rangeVars, pmVars, tileVars, windowVars,
                   selectVars, encodeVars, viewerVars>>

\* Steps 8-10: readRasters resolves; verbose ends with the diagnostic JSON, else
\* the placement is computed.
TileRead ==
    /\ gpc = "read"
    /\ IF query.verbose
       THEN /\ work' = [work EXCEPT !.read = TRUE]
            /\ gpc' = "done"
            /\ answer' = Diagnostic
       ELSE /\ work' = [work EXCEPT !.read = TRUE,
                           !.placement = OutputPlacement(work.region, work.window,
                                                         work.level)]
            /\ gpc' = "resize"
            /\ UNCHANGED answer
    /\ UNCHANGED query
    /\ UNCHANGED <<clockVars, urlVars, rangeVars, pmVars, tileVars, windowVars,
                   selectVars, encodeVars, viewerVars>>

\* sharp(...).resize(outW, outH): a size of 0 is refused with an exception; a
\* placement that fills the canvas is sent as it is.
TileResize ==
    /\ gpc = "resize"
    /\ LET pl == work.placement
       IN IF pl.outW < 1 \/ pl.outH < 1
          THEN /\ work' = [work EXCEPT !.failed = TRUE]
               /\ gpc' = "done"
               /\ answer' = FailureResponse(query.verbose)
          ELSE IF FillsCanvas(pl)
               THEN /\ gpc' = "done"
                    /\ answer' = Rendered(pl.outW, pl.outH)
                    /\ UNCHANGED work
               ELSE /\ gpc' = "composite"
                    /\ UNCHANGED <<work, answer>>
    /\ UNCHANGED query
    /\ UNCHANGED <<clockVars, urlVars, rangeVars, pmVars, tileVars, windowVars,
                   selectVars, encodeVars, viewerVars>>

\* The resized pixels are composited on a transparent 256 x 256 canvas.
TileComposite ==
    /\ gpc = "composite"
    /\ gpc' = "done"
    /\ answer' = Rendered(TILE_SIZE, TILE_SIZE)
    /\ UNCHANGED <<query, work>>
    /\ UNCHANGED <<clockVars, urlVars, rangeVars, pmVars, tileVars, windowVars,
                   selectVars, encodeVars, viewerVars>>

\* Any await of the try block rejects (import, signing, opening the COG, the
\* main image, the image count, the pixel read, resize, composite): the catch
\* block answers.
TileFail ==
    /\ gpc \in {"url", "open", "image", "overviews", "read", "resize", "composite"}
    /\ work' = [work EXCEPT !.failed = TRUE]
    /\ gpc' = "done"
    /\ answer' = FailureResponse(query.verbose)
    /\ UNCHANGED query
    /\ UNCHANGED <<clockVars, urlVars, rangeVars, pmVars, tileVars, windowVars,
                   selectVars, encodeVars, viewerVars>>

\* ?test=1: a red 256 x 256 PNG made by sharp, or the JSON that says sharp
\* failed.
TileTest ==
    /\ gpc = "request"
    /\ query.mode = "test"
    /\ \E ok \in BOOLEAN :
          answer' = IF ok
                    THEN [status |-> 200, type |-> "image/png", cache |-> "",
                          image |-> [w |-> TILE_SIZE, h |-> TILE_SIZE], via |-> "test"]
                    ELSE [status |-> 200, type |-> "application/json", cache |-> "",
                          image |-> NoImage, via |-> "test"]
    /\ gpc' = "done"
    /\ UNCHANGED <<query, work>>
    /\ UNCHANGED <<clockVars, urlVars, rangeVars, pmVars, tileVars, windowVars,
                   selectVars, encodeVars, viewerVars>>

\* Whether ?debug=1 tries the signing: route.ts `if (year && COG_FILES[year])`,
\* tile.js `if (req.query.year)`.
DebugSigns(variant, year) ==
    /\ year # ""
    /\ variant = "route" => CogFile(year).defined

\* ?debug=1: the diagnostic JSON; the signing and the HEAD request are tried
\* inside a try block of their own, whose catch notes the error.
TileDebug ==
    /\ gpc = "request"
    /\ query.mode = "debug"
    /\ IF DebugSigns(query.variant, query.year)
       THEN \E ok \in BOOLEAN :
               LET s == Signing(query.variant, query.year, query.warm)
               IN work' = IF ok THEN [work EXCEPT !.issued = s.issued,
                                                  !.signed = s.signed, !.key = s.key,
                                                  !.remote = TRUE]
                                ELSE [work EXCEPT !.failed = TRUE]
       ELSE UNCHANGED work
    /\ answer' = [status |-> 200, type |-> "application/json", cache |-> "",
                  image |-> NoImage, via |-> "debug"]
    /\ gpc' = "done"
    /\ UNCHANGED query
    /\ UNCHANGED <<clockVars, urlVars, rangeVars, pmVars, tileVars, windowVars,
                   selectVars, encodeVars, viewerVars>>

\* Requests in every mode: test and debug for both files, the tile itself for
\* route.ts.
InitModes ==
    /\ query \in [year : YearTexts, z : ZoomTexts, x : IndexTexts, y : IndexTexts,
                  verbose : BOOLEAN, warm : BOOLEAN,
                  mode : {"normal", "test", "debug"}, variant : {"route", "tile.js"}]
    /\ query.variant = "tile.js" => query.mode # "normal"
    /\ query.mode # "normal" => query.z = <<>> /\ query.x = <<>> /\ query.y = <<>>
    /\ gpc = "request"
    /\ work = NoWork
    /\ answer = NoAnswer

NextHandler ==
    \/ TileValidate
    \/ TileSignedUrl
    \/ TileOpen
    \/ TileLocate
    \/ TileOverviews
    \/ TileRead
    \/ TileResize
    \/ TileComposite
    \/ TileFail

NextModes == NextHandler \/ TileTest \/ TileDebug

(***************************************************************************)
(* The map page (part_003): the layer checkboxes, the opacity slider of    *)
(* the satellite layers and the year slider, after map.on('load').         *)
(* Opacities are kept in hundredths.                                       *)
(***************************************************************************)
toggleableLayerIds ==
    {"landcover2016", "landcover2024", "landcoverChange",
     "trees2016", "trees2024", "treeChange", "satellite2017", "satellite2024"}

SatelliteIds == {"satellite2017", "satellite2024"}

\* Positions the opacity slider is moved to (min 0, max 100).
OpacityValues == {0, 30, 70, 100}

\* The year slider: min 2016, max 2024, step 8.
SliderYears == {2016, 2024}

\* A slip that would show a layer whatever its checkbox says.
LayerVisibility_Always(checked) == "visible"

\* el.checked ? 'visible' : 'none'
LayerVisibility(checked) == IF checked THEN "visible" ELSE "none"

\* The state when the load handler has run: only landcover2016 is checked and
\* visible, both satellite layers were added with raster-opacity 0.7, the
\* opacity control is hidden and shows 70%.
InitViewer ==
    view = [checked |-> [id \in toggleableLayerIds |-> id = "landcover2016"],
            visibility |-> [id \in toggleableLayerIds |->
                               LayerVisibility(id = "landcover2016")],
            rasterOpacity |-> [id \in SatelliteIds |-> 70],
            currentSatelliteOpacity |-> 70,
            opacityValue |-> 70,
            opacityControl |-> "none",
            year |-> 2016,
            yearDisplay |-> 2016,
            last |-> "load"]

\* The user clicks the checkbox of a layer: checkbox.onchange.
ToggleLayer(layerId) ==
    /\ LET checked == [view.checked EXCEPT ![layerId] = ~view.checked[layerId]]
           anyActive == checked["satellite2017"] \/ checked["satellite2024"]
       IN view' = [view EXCEPT
                     !.checked = checked,
                     !.visibility[layerId] = LayerVisibility(checked[layerId]),
                     !.opacityControl =
                         IF layerId \in SatelliteIds
                         THEN (IF anyActive THEN "block" ELSE "none")
                         ELSE view.opacityControl,
                     !.last = "toggle"]
    /\ UNCHANGED <<clockVars, urlVars, rangeVars, pmVars, tileVars, windowVars,
                   handlerVars, selectVars, encodeVars>>

\* opSlider.oninput: updateSatelliteOpacity(parseInt(opSlider.value, 10) / 100).
\* The slider sits inside the opacity control and can be moved only while the
\* control is displayed.
updateSatelliteOpacity(value) ==
    /\ view.opacityControl = "block"
    /\ view' = [view EXCEPT
                  !.currentSatelliteOpacity = value,
                  !.rasterOpacity = [id \in SatelliteIds |->
                                        IF view.checked[id] THEN value
                                        ELSE view.rasterOpacity[id]],
                  !.opacityValue = Round(Ratio(value * 100, 100)),
                  !.last = "opacity"]
    /\ UNCHANGED <<clockVars, urlVars, rangeVars, pmVars, tileVars, windowVars,
                   handlerVars, selectVars, encodeVars>>

\* slider.oninput: the year slider is moved to the other year.  The closing
\* updateFilters() sets the category filter of the vector layers again from the
\* category checkboxes, which none of these controls changes.
YearInput(year) ==
    /\ year # view.year
    /\ LET show == IF year = 2016 THEN {"landcover2016", "trees2016"}
                                  ELSE {"landcover2024", "trees2024"}
           hide == IF year = 2016 THEN {"landcover2024", "trees2024"}
                                  ELSE {"landcover2016", "trees2016"}
           off == hide \cup {"landcoverChange", "treeChange"}
       IN view' = [view EXCEPT
                     !.year = year,
                     !.yearDisplay = year,
                     !.visibility = [id \in toggleableLayerIds |->
                                        IF id \in show THEN "visible"
                                        ELSE IF id \in off THEN "none"
                                        ELSE view.visibility[id]],
                     !.checked = [id \in toggleableLayerIds |->
                                     IF id \in show THEN TRUE
                                     ELSE IF id \in off THEN FALSE
                                     ELSE view.checked[id]],
                     !.last = "year"]
    /\ UNCHANGED <<clockVars, urlVars, rangeVars, pmVars, tileVars, windowVars,
                   handlerVars, selectVars, encodeVars>>

NextViewer ==
    \/ \E layerId \in toggleableLayerIds : ToggleLayer(layerId)
    \/ \E value \in OpacityValues : updateSatelliteOpacity(value)
    \/ \E year \in SliderYears : YearInput(year)

(***************************************************************************)
(* Specifications.                                                         *)
(***************************************************************************)
vars == <<now, ticks, urlCache, urlCacheTime, lookup, ret,
          hdr, objSize, rpc, resp, body, env, metaCache, req, outcome,
          tile, tpc, bounds, scene, wpc, calc, query, gpc, work, answer,
          store, pick, raster, view>>

ParkedClock == now = 0 /\ ticks = 0

ParkedUrl ==
    /\ urlCache = [y \in Years |-> NoUrl]
    /\ urlCacheTime = 0
    /\ lookup = [c \in Callers |-> IdleLookup]
    /\ ret = NoRet

ParkedRange ==
    /\ hdr = [present |-> FALSE, text |-> <<>>]
    /\ objSize = 0
    /\ rpc = "parked"
    /\ resp = NoResp
    /\ body = NoBody

ParkedPm ==
    /\ env = [bucketSet |-> TRUE]
    /\ metaCache = [k \in PmKeys |-> NoMeta]
    /\ req = [c \in Clients |-> IdleReq]
    /\ outcome = NoOutcome
    /\ store = 0

ParkedTile ==
    /\ tile = [z |-> 0, x |-> 0, y |-> 0]
    /\ tpc = "parked"
    /\ bounds = NoBounds

ParkedWindow ==
    /\ scene = [variant |-> "route", bounds |-> NoBounds, bad |-> {}]
    /\ wpc = "parked"
    /\ calc = NoCalc

ParkedSelect ==
    pick = [res |-> <<1>>, neededRes |-> Ratio(0, 2), pc |-> "parked", img |-> 1]

ParkedEncode == raster = NoRaster

ParkedViewer ==
    view = [checked |-> [id \in toggleableLayerIds |-> FALSE],
            visibility |-> [id \in toggleableLayerIds |-> "none"],
            rasterOpacity |-> [id \in SatelliteIds |-> 0],
            currentSatelliteOpacity |-> 0, opacityValue |-> 0,
            opacityControl |-> "none", year |-> 2016, yearDisplay |-> 2016,
            last |-> "parked"]

ParkedHandler ==
    /\ query = [year |-> "", z |-> <<>>, x |-> <<>>, y |-> <<>>, verbose |-> FALSE,
                warm |-> FALSE, mode |-> "normal", variant |-> "route"]
    /\ gpc = "parked"
    /\ work = NoWork
    /\ answer = NoAnswer

InitSpecUrl ==
    /\ ParkedClock /\ InitUrl /\ ParkedRange /\ ParkedPm
    /\ ParkedTile /\ ParkedWindow /\ ParkedHandler
    /\ ParkedSelect /\ ParkedEncode /\ ParkedViewer
InitSpecRange ==
    /\ ParkedClock /\ ParkedUrl /\ InitRange /\ ParkedPm
    /\ ParkedTile /\ ParkedWindow /\ ParkedHandler
    /\ ParkedSelect /\ ParkedEncode /\ ParkedViewer
InitSpecPm ==
    /\ ParkedClock /\ ParkedUrl /\ ParkedRange /\ InitPm
    /\ ParkedTile /\ ParkedWindow /\ ParkedHandler
    /\ ParkedSelect /\ ParkedEncode /\ ParkedViewer
InitSpecTile ==
    /\ ParkedClock /\ ParkedUrl /\ ParkedRange /\ ParkedPm
    /\ InitTile /\ ParkedWindow /\ ParkedHandler
    /\ ParkedSelect /\ ParkedEncode /\ ParkedViewer
InitSpecWindow ==
    /\ ParkedClock /\ ParkedUrl /\ ParkedRange /\ ParkedPm
    /\ ParkedTile /\ InitWindow /\ ParkedHandler
    /\ ParkedSelect /\ ParkedEncode /\ ParkedViewer
InitSpecHandler ==
    /\ ParkedClock /\ ParkedUrl /\ ParkedRange /\ ParkedPm
    /\ ParkedTile /\ ParkedWindow /\ InitHandler
    /\ ParkedSelect /\ ParkedEncode /\ ParkedViewer

SpecUrl == InitSpecUrl /\ [][NextUrl]_vars
SpecRange == InitSpecRange /\ [][NextRange]_vars
SpecPm == InitSpecPm /\ [][NextPm]_vars
SpecTile == InitSpecTile /\ [][NextTile]_vars
SpecWindow == InitSpecWindow /\ [][NextWindow]_vars
SpecHandler == InitSpecHandler /\ [][NextHandler]_vars

InitSpecSelect ==
    /\ ParkedClock /\ ParkedUrl /\ ParkedRange /\ ParkedPm
    /\ ParkedTile /\ ParkedWindow /\ ParkedHandler
    /\ InitSelect /\ ParkedEncode /\ ParkedViewer

SpecSelect == InitSpecSelect /\ [][NextSelect]_vars

InitSpecCaches ==
    /\ ParkedClock /\ InitUrl /\ ParkedRange /\ InitPm
    /\ ParkedTile /\ ParkedWindow /\ ParkedHandler
    /\ ParkedSelect /\ ParkedEncode /\ ParkedViewer

SpecCaches == InitSpecCaches /\ [][NextCaches]_vars

InitSpecRace ==
    /\ ParkedClock /\ ParkedUrl /\ ParkedRange /\ InitRace
    /\ ParkedTile /\ ParkedWindow /\ ParkedHandler
    /\ ParkedSelect /\ ParkedEncode /\ ParkedViewer

SpecRace == InitSpecRace /\ [][NextRace]_vars

InitSpecModes ==
    /\ ParkedClock /\ ParkedUrl /\ ParkedRange /\ ParkedPm
    /\ ParkedTile /\ ParkedWindow /\ InitModes
    /\ ParkedSelect /\ ParkedEncode /\ ParkedViewer

SpecModes == InitSpecModes /\ [][NextModes]_vars

InitSpecViewer ==
    /\ ParkedClock /\ ParkedUrl /\ ParkedRange /\ ParkedPm
    /\ ParkedTile /\ ParkedWindow /\ ParkedHandler
    /\ ParkedSelect /\ ParkedEncode /\ InitViewer

SpecViewer == InitSpecViewer /\ [][NextViewer]_vars

InitSpecEncode ==
    /\ ParkedClock /\ ParkedUrl /\ ParkedRange /\ ParkedPm
    /\ ParkedTile /\ ParkedWindow /\ ParkedHandler
    /\ ParkedSelect /\ InitEncode /\ ParkedViewer

SpecEncode == InitSpecEncode /\ [][NextEncode]_vars

\* C1: every URL returned by a lookup for a key was issued for that key less than
\* 3,000,000 ms before the lookup (so it is never past its 3,600,000 ms expiry).
C1_ReturnedUrlWithinRenewal ==
    ret.kind \in {"cached", "issued"} =>
        /\ ret.url.object = COG_FILES[ret.year]
        /\ ret.at - ret.url.issuedAt < RENEW_AFTER_MS
        /\ ret.at < ret.url.expires

\* C2: a lookup made less than 3,000,000 ms after its key's last issuance returns
\* the cached URL of that key and starts no new issuance.
C2_NoReissueWithinRenewal ==
    /\ \A c \in Callers : lookup[c].pc = "issuing" => ~lookup[c].ownFresh
    /\ ret.kind = "cached" => ret.url = urlCache[ret.year]

(***************************************************************************)
(* The range syntax as the protocol states it, read independently of       *)
(* parseRange: bytes=<start>-<end?> with 0 <= start <= end < S.            *)
(***************************************************************************)
RECURSIVE Horner(_, _)
Horner(acc, s) ==
    IF s = <<>> THEN acc ELSE Horner(acc * 10 + DigitValue(Head(s)), Tail(s))

AllDigits(s) == \A i \in 1..Len(s) : s[i] \in Digits

SatisfiableRange(header, S) ==
    /\ header.present
    /\ LET text == header.text
           n == Len(text)
       IN /\ n >= 8
          /\ \A i \in 1..6 : text[i] = BytesPrefix[i]
          /\ \E dash \in 8..n :
                /\ text[dash] = "-"
                /\ AllDigits(SubSeq(text, 7, dash - 1))
                /\ AllDigits(SubSeq(text, dash + 1, n))
                /\ LET first == Horner(0, SubSeq(text, 7, dash - 1))
                       last == IF dash = n THEN S - 1
                               ELSE Horner(0, SubSeq(text, dash + 1, n))
                   IN 0 <= first /\ first <= last /\ last < S

OpenRangeFromZero == [present |-> TRUE, text |-> BytesPrefix \o <<"0", "-">>]

\* C3: the response is 206 exactly when the Range header is bytes=<start>-<end?>
\* with 0 <= start <= end < S; in every other case it is 200 with no body,
\* Content-Length S and the ETag, and never an error status.
C3_RangeDecides206 ==
    rpc \in {"streaming", "done"} =>
        IF SatisfiableRange(hdr, objSize)
        THEN resp.status = 206
        ELSE /\ resp.status = 200
             /\ ~resp.hasBody
             /\ ~resp.read.issued
             /\ resp.contentLength = objSize
             /\ resp.etag = TheEtag

\* C3 witness: a syntactically valid header whose start lies beyond its end was
\* answered 200 with the metadata headers and no read of the object.
C3_Witness ==
    /\ rpc = "done"
    /\ hdr = [present |-> TRUE, text |-> BytesPrefix \o <<"2", "-", "1">>]
    /\ objSize = MaxSize
    /\ resp.status = 200

\* C4 as stated: for an object of any size S, bytes=0- is answered 206 with
\* Content-Range bytes 0-(S-1)/S and a body of exactly S bytes.
C4_Original_AnySize ==
    (rpc = "done" /\ hdr = OpenRangeFromZero) =>
        /\ resp.status = 206
        /\ resp.contentRange = [given |-> TRUE, first |-> 0, last |-> objSize - 1,
                                total |-> objSize]
        /\ body.state = "complete"
        /\ BodyLength(body) = objSize

\* C4 amended: for an object of size S >= 1, bytes=0- is answered 206 with
\* Content-Range bytes 0-(S-1)/S, Content-Length S and a body of exactly S bytes;
\* for S = 0 the request degrades to the 200 metadata response.
C4_OpenRangeWholeObject ==
    (rpc = "done" /\ hdr = OpenRangeFromZero) =>
        IF objSize >= 1
        THEN /\ resp.status = 206
             /\ resp.contentRange = [given |-> TRUE, first |-> 0,
                                     last |-> objSize - 1, total |-> objSize]
             /\ resp.contentLength = objSize
             /\ body.state = "complete"
             /\ body.first = 0
             /\ BodyLength(body) = objSize
        ELSE /\ resp.status = 200
             /\ ~resp.hasBody

C4_Witness ==
    /\ rpc = "done"
    /\ hdr = OpenRangeFromZero
    /\ objSize = MaxSize
    /\ resp.status = 206
    /\ BodyLength(body) = MaxSize

\* C5: on the 206 path the read asked of the object store is exactly the
\* inclusive range [start, end] (never a byte beyond end or beyond size-1), and
\* the streamed body has exactly Content-Length = end - start + 1 bytes.
C5_ReadIsExactRange ==
    (rpc = "done" /\ resp.status = 206) =>
        /\ resp.read.start = resp.contentRange.first
        /\ resp.read.end = resp.contentRange.last
        /\ resp.read.end <= objSize - 1
        /\ body.state = "complete"
        /\ BodyLength(body) = resp.contentLength

\* C6: a layer identifier outside the six allow-listed names is answered 404 and
\* leads to no object-store access; object paths come from the allow-list only.
C6_UnknownLayerIs404 ==
    /\ \A c \in Clients :
          req[c].pc \in {"meta", "streaming"} =>
              /\ req[c].layer \in LayerNames
              /\ req[c].source.object[2] \in AllowedPaths
    /\ (outcome.kind # "none" /\ outcome.layer \notin LayerNames) =>
          /\ outcome.kind = "responded"
          /\ outcome.resp.status = 404

\* C7: every failure of a range request ends as a structured 500: none leaves the
\* handler as an uncaught exception, none is a 206 whose body breaks off.
C7_FailuresAre500 ==
    /\ outcome.kind # "uncaught"
    /\ ~(outcome.resp.status = 206 /\ outcome.body.state = "error")
    /\ (outcome.kind = "responded" /\ outcome.fetched
            /\ outcome.resp.status \notin {200, 206}) => outcome.resp.status = 500

(***************************************************************************)
(* C8 is about steps: what a request does with the cache entry it finds.   *)
(***************************************************************************)
CachedEntries == {metaCache[k] : k \in PmKeys} \ {NoMeta}

EntryIsYoung(e, t) == t - e.fetchedAt < META_TTL_MS

YoungEntryOf(object) ==
    \E e \in CachedEntries : e.of = object /\ EntryIsYoung(e, now)

\* Size announced by a response: Content-Length (200) or the Content-Range total.
AnnouncedSize(r) ==
    IF r.status = 200 THEN r.contentLength ELSE r.contentRange.total

\* Client c's request starts a metadata round-trip in this step.
StartsFetch(c) == req[c].pc = "idle" /\ req'[c].pc = "meta"

\* Client c's request is answered from the cache in this step.
AnswersFromCache(c) ==
    /\ req[c].pc = "idle"
    /\ \/ req'[c].pc = "streaming"
       \/ /\ req' = req
          /\ outcome' # outcome
          /\ outcome'.kind = "responded"
          /\ outcome'.resp.status = 200
          /\ ~outcome'.fetched

\* Client c's round-trip completes and its request is answered in this step.
AnswersAfterFetch(c) ==
    /\ req[c].pc = "meta"
    /\ req'[c].pc # "meta"
    /\ outcome'.resp.status \in {200, 206}

\* C8: size and ETag of a response come from a metadata entry of the same object
\* fetched less than META_TTL_MS before the request looked: a request that finds
\* such an entry makes no metadata round-trip, and one that finds none (or one
\* whose age has reached the TTL) answers only after its own fetch has completed.
C8_MetadataWithinTtl ==
    [][\A c \in Clients :
          /\ StartsFetch(c) =>
                /\ ~YoungEntryOf(req'[c].source.object)
                /\ outcome' = outcome
          /\ AnswersFromCache(c) =>
                /\ ~outcome'.fetched
                /\ metaCache' = metaCache
                /\ \E e \in CachedEntries :
                      /\ e.of = outcome'.object
                      /\ EntryIsYoung(e, now)
                      /\ outcome'.resp.etag = e.etag
                      /\ AnnouncedSize(outcome'.resp) = e.size
          /\ AnswersAfterFetch(c) =>
                /\ outcome'.fetched
                /\ outcome'.object = req[c].source.object
                /\ outcome'.resp.etag = ObjectEtag(outcome'.object[2])
                /\ AnnouncedSize(outcome'.resp) = ObjectSize(outcome'.object[2])
                /\ \E k \in PmKeys :
                      /\ metaCache'[k].of = outcome'.object
                      /\ metaCache'[k].fetchedAt = now
                      /\ metaCache'[k].etag = outcome'.resp.etag
    ]_vars

\* C8 witness: a request was answered from an entry META_TTL_MS - 1 old, while the
\* other object's entry is younger.
C8_Witness ==
    /\ outcome.kind = "responded"
    /\ ~outcome.fetched
    /\ outcome.resp.status = 200
    /\ now = META_TTL_MS - 1
    /\ \E e \in CachedEntries : e.of = outcome.object /\ e.fetchedAt = 0
    /\ \E e \in CachedEntries : e.of # outcome.object /\ e.fetchedAt > 0

\* C9: for every zoom z >= 0 and every x, y with 0 <= x, y < 2^z, tileBounds
\* returns west < east and south < north.
C9_BoundsAreOrdered ==
    tpc = "bounds" =>
        /\ bounds.west < bounds.east
        /\ bounds.south < bounds.north

\* C10: adjacent tiles share their boundary exactly, the first column starts at
\* -ORIGIN_SHIFT and the last one ends at +ORIGIN_SHIFT (likewise the rows), so
\* the tiles of a zoom level lie in the world square and cover it.
C10_TilesCoverTheWorld ==
    tpc = "bounds" =>
        LET z == tile.z
            x == tile.x
            y == tile.y
            O == bounds.shift
        IN /\ ValidIndex(z, x + 1) => bounds.east = tileBounds(z, x + 1, y).west
           /\ ValidIndex(z, y + 1) => bounds.south = tileBounds(z, x, y + 1).north
           /\ x = 0 => bounds.west = 0 - O
           /\ y = 0 => bounds.north = O
           /\ (z <= 30 /\ x = 2^z - 1) => bounds.east = O
           /\ (z <= 30 /\ y = 2^z - 1) => bounds.south = 0 - O
           /\ 0 - O <= bounds.west /\ bounds.east <= O
           /\ 0 - O <= bounds.south /\ bounds.north <= O

\* A text that is a decimal integer: an optional sign and digits only.
IsIntegerText(text) ==
    LET rest == IF Len(text) > 0 /\ text[1] \in {"-", "+"} THEN Tail(text) ELSE text
    IN Len(rest) > 0 /\ \A i \in 1..Len(rest) : rest[i] \in Digits

InvalidQuery ==
    \/ query.year \notin {"2017", "2024"}
    \/ ~IsIntegerText(query.z)
    \/ ~IsIntegerText(query.x)
    \/ ~IsIntegerText(query.y)

\* C11: a tile request whose year is not 2017 or 2024, or whose z, x or y is
\* missing or not an integer, is answered 400 with a structured body, and no
\* credential is issued and nothing is read remotely for it.
C11_InvalidRequestIs400 ==
    (gpc # "parked" /\ InvalidQuery) =>
        /\ ~work.issued
        /\ ~work.remote
        /\ gpc = "done" => answer = BadRequest

\* C12: tileBounds is only ever evaluated with z >= 0 and 0 <= x, y < 2^z.
C12_BoundsOnlyForValidTiles ==
    work.evaluated =>
        /\ work.z.value >= 0
        /\ ValidIndex(work.z.value, work.x.value)
        /\ ValidIndex(work.z.value, work.y.value)

PngOrTransparentOnFailure ==
    /\ answer.status = 200
    /\ answer.type = "image/png"
    /\ work.failed => answer.image = EMPTY_PNG

C14_SuccessIs256 ==
    (gpc = "done" /\ answer.via \in {"outside", "empty", "rendered"}) =>
        answer.image = [w |-> TILE_SIZE, h |-> TILE_SIZE]

\* The tile's bounds lie outside the extent of the raster, in world coordinates.
TileOutsideRaster(b, g) ==
    \/ b.east <= g.oX
    \/ b.west >= g.oX + mainW * g.rX
    \/ b.north <= g.oY + mainH * g.rY
    \/ b.south >= g.oY

\* C15: for a tile whose bounds lie entirely outside the extent, the clamped
\* window is empty on whichever level, no pixel read is issued, and the answer
\* is the transparent image returned as a success.
C15_OutsideTileIsTransparentSuccess ==
    LET unit == CommonUnit(work.bounds)
    IN (work.evaluated /\ TileOutsideRaster(InUnit(work.bounds, unit), HandlerGeo(unit))) =>
          /\ \A level \in 1..Len(Levels) : EmptyWindow(Window(work.region, level))
          /\ ~work.read
          /\ ~work.failed
          /\ gpc = "done"
          /\ answer.via \in {"outside", "empty"}
          /\ answer.status = 200
          /\ answer.type = "image/png"
          /\ answer.image = EMPTY_PNG
          /\ answer.cache = LongCache

\* C15 witness: the valid tile z=3, x=5, y=0 lies east of the raster and was
\* answered with the transparent tile.
C15_Witness ==
    /\ gpc = "done"
    /\ query.year = "2017"
    /\ query.z = <<"3">> /\ query.x = <<"5">> /\ query.y = <<"0">>
    /\ work.evaluated
    /\ answer.via = "outside"

\* C16: a response of the failure path never carries s-maxage=86400, and every
\* response carrying it is a rendered tile or the no-intersection transparent
\* tile, produced without a failure.
C16_CacheSeparatesSuccessFromFailure ==
    gpc = "done" =>
        /\ (work.failed \/ answer.via = "failure") => answer.cache # LongCache
        /\ answer.cache = LongCache =>
              /\ ~work.failed
              /\ answer.via \in {"rendered", "outside", "empty"}

\* C16 witness: the COG could not be opened after the URL was signed, and the
\* answer is the transparent PNG with no-cache.
C16_Witness ==
    /\ gpc = "done"
    /\ work.issued
    /\ ~work.remote
    /\ work.failed
    /\ answer.type = "image/png"
    /\ answer.cache = "no-cache"

\* C17: whenever the clamped window is not empty, the placement fits the canvas:
\* outX >= 0, outY >= 0, outX + outW <= 256 and outY + outH <= 256.
C17_PlacementFitsCanvas ==
    wpc = "placed" =>
        /\ calc.placement.outX >= 0
        /\ calc.placement.outY >= 0
        /\ calc.placement.outX + calc.placement.outW <= TILE_SIZE
        /\ calc.placement.outY + calc.placement.outH <= TILE_SIZE

\* C18: whenever the clamped window is not empty, outW >= 1 and outH >= 1, also
\* when the proportional size rounds to 0 or the offset reaches the canvas edge.
C18_PlacementAtLeastOnePixel ==
    wpc = "placed" =>
        /\ calc.placement.outW >= 1
        /\ calc.placement.outH >= 1

\* C19: every pixel-window read has 0 <= cL < cR <= width and
\* 0 <= cT < cB <= height of the level that is read.
C19_ReadWindowInsideLevel ==
    calc.read =>
        /\ 0 <= calc.window.cL
        /\ calc.window.cL < calc.window.cR
        /\ calc.window.cR <= Levels[calc.level].w
        /\ 0 <= calc.window.cT
        /\ calc.window.cT < calc.window.cB
        /\ calc.window.cB <= Levels[calc.level].h

\* C19 witness: a read of the smallest overview whose window was clamped to the
\* right edge of that overview and starts inside it.
C19_Witness ==
    /\ calc.read
    /\ calc.level = Len(Levels)
    /\ calc.window.cL > 0
    /\ calc.window.cR = Levels[calc.level].w
    /\ Ceil(Times(calc.region.fR, Levels[calc.level].w, mainW)) > Levels[calc.level].w

\* The fractional region in the pixels of the level that is read.
RegionOnLevel ==
    IF scene.variant = "route"
    THEN [fL |-> Times(calc.region.fL, Levels[calc.level].w, mainW),
          fT |-> Times(calc.region.fT, Levels[calc.level].h, mainH),
          fR |-> Times(calc.region.fR, Levels[calc.level].w, mainW),
          fB |-> Times(calc.region.fB, Levels[calc.level].h, mainH)]
    ELSE calc.region

WindowComputed ==
    \/ wpc \in {"window", "read", "placed"}
    \/ wpc = "transparent" /\ ~(scene.variant = "route" /\ OutsideExtent(calc.region))

\* The tile lies inside the extent of the raster.
TileInsideExtent(b, g) ==
    /\ g.oX <= b.west
    /\ b.east <= g.oX + mainW * g.rX
    /\ b.north <= g.oY
    /\ g.oY + mainH * g.rY <= b.south

\* C20: the clamped window contains the intersection of the fractional region
\* with the level, and for a tile inside the extent the window mapped back to
\* world coordinates contains the tile's bounds.
C20_WindowCoversRegion ==
    WindowComputed =>
        LET w == calc.window
            r == RegionOnLevel
            b == scene.bounds
            lg == LevelGeo(WindowGeo, calc.level)
        IN /\ w.cL <= 0 \/ w.cL * r.fL.d <= r.fL.n
           /\ w.cT <= 0 \/ w.cT * r.fT.d <= r.fT.n
           /\ w.cR >= Levels[calc.level].w \/ w.cR * r.fR.d >= r.fR.n
           /\ w.cB >= Levels[calc.level].h \/ w.cB * r.fB.d >= r.fB.n
           /\ TileInsideExtent(b, WindowGeo) =>
                /\ WindowGeo.oX + w.cL * lg.rX <= b.west
                /\ WindowGeo.oX + w.cR * lg.rX >= b.east
                /\ WindowGeo.oY + w.cT * lg.rY >= b.north
                /\ WindowGeo.oY + w.cB * lg.rY <= b.south

\* C20 witness: a tile inside the extent, read from an overview, whose top edge
\* falls between two pixel rows.
C20_Witness ==
    /\ wpc = "placed"
    /\ calc.level = 2
    /\ TileInsideExtent(scene.bounds, WindowGeo)
    /\ scene.bounds.north % 2 = 1


\* The overviews within the tolerance that are coarser than image 0.
Qualifying(res, neededRes) ==
    {i \in 2..Len(res) : /\ Abs(res[i]) * 2 * neededRes.d <= neededRes.n * 3
                         /\ Abs(res[i]) > Abs(res[1])}

\* The same levels with the overviews in the order f.
Reordered(res, f) == [i \in 1..Len(res) |-> IF i = 1 THEN res[1] ELSE res[f[i]]]

\* C21: the resolution-based selector returns a level of the largest resolution
\* among the overviews whose resolution is at most 1.5 times the target and
\* above that of level 0, and level 0 when there is none; the resolution chosen
\* is the same for every order of the overviews.
C21_SelectorPicksCoarsestFit ==
    pick.pc = "chosen" =>
        LET q == Qualifying(pick.res, pick.neededRes)
        IN /\ q = {} => pick.img = 1
           /\ q # {} => /\ pick.img \in q
                        /\ \A j \in q : Abs(pick.res[j]) <= Abs(pick.res[pick.img])
           /\ \A f \in Permutations(2..Len(pick.res)) :
                 LET other == Reordered(pick.res, f)
                 IN Abs(other[SelectByResolution(other, pick.neededRes)])
                      = Abs(pick.res[pick.img])

\* An overview is chosen although a finer overview within the tolerance comes
\* after it in the file.
C21_Witness ==
    /\ pick.pc = "chosen"
    /\ pick.img > 1
    /\ \E j \in Qualifying(pick.res, pick.neededRes) :
          j > pick.img /\ Abs(pick.res[j]) < Abs(pick.res[pick.img])

\* The width of the tile in pixels of the level that was chosen.
TileAcross ==
    IF scene.variant = "route"
    THEN Times(fW(calc.region), Levels[calc.level].w, mainW)
    ELSE fW(calc.region)

\* C22 as stated: the level chosen by either strategy covers the tile with at
\* least 256 of its pixels across.
C22_Original_NeverUpsampled ==
    wpc \in {"window", "read", "placed"} =>
        TileAcross.n >= TILE_SIZE * TileAcross.d

\* C22: an overview chosen by the width ratio covers the tile with at least 256
\* of its pixels across; an overview chosen by resolution with the 1.5 tolerance
\* covers it with at least 256 / 1.5 of its pixels; level 0, the fallback of both
\* strategies, has no such bound.
C22_OverviewWithinTolerance ==
    (wpc \in {"window", "read", "placed"} /\ calc.level > 1) =>
        IF scene.variant = "route"
        THEN TileAcross.n >= TILE_SIZE * TileAcross.d
        ELSE TileAcross.n * 3 >= TILE_SIZE * 2 * TileAcross.d

\* The resolution strategy has chosen an overview that gives the tile fewer than
\* 256 pixels across.
C22_Witness ==
    /\ wpc = "placed"
    /\ scene.variant = "tile.js"
    /\ calc.level > 1
    /\ TileAcross.n < TILE_SIZE * TileAcross.d

\* C23: an overview that cannot be read is skipped: the request does not fail
\* and the level chosen is a readable one.
C23_BadOverviewIsSkipped ==
    (wpc # "tile" /\ scene.bad # {}) =>
        /\ wpc # "failed"
        /\ calc.level \notin scene.bad

\* C24: the PNG is encoded directly exactly when the placement is (0, 0) with
\* 256 x 256, and every tile inside the extent of the raster gets that
\* placement.
C24_InsideTileIsDirectEncode ==
    wpc = "placed" =>
        /\ calc.path = "direct" <=> FillsCanvas(calc.placement)
        /\ TileInsideExtent(scene.bounds, WindowGeo) =>
              /\ FillsCanvas(calc.placement)
              /\ calc.path = "direct"

\* C25: the encoder is given as many channels as the source has bands, and the
\* sample of pixel i and channel j is the sample of pixel i and band j that was
\* read.
C25_ChannelsAreTheBandsRead ==
    raster.pc = "encoded" =>
        /\ raster.channels = raster.bands
        /\ \A i \in 0..(raster.w * raster.h - 1), j \in 0..(raster.bands - 1) :
              LET k == i * raster.channels + j + 1
              IN /\ k \in DOMAIN raster.data
                 /\ raster.data[k] = [pixel |-> i, band |-> j, via |-> "copy"]

\* A lookup of a signed URL ends with the exception of a failed issuance.
IssuanceFails ==
    \E c \in Callers :
        lookup[c].pc = "issuing" /\ lookup'[c].pc = "idle" /\ ret'.kind = "threw"

\* A metadata fetch ends with the 500 of a failed round trip.
MetaFetchFails ==
    \E c \in Clients :
        req[c].pc = "meta" /\ req'[c].pc = "idle" /\ outcome'.resp.status = 500

\* Every entry of either cache is the whole result of one round trip.
EntriesAreWhole ==
    /\ \A y \in Years :
          urlCache[y] = NoUrl \/ urlCache[y] = SignedUrl(y, urlCache[y].issuedAt)
    /\ \A k \in PmKeys :
          metaCache[k] = NoMeta
          \/ \E g \in 0..store :
                metaCache[k] = FetchedMeta(metaCache[k].of, g, metaCache[k].fetchedAt)

\* C26: a failed issuance leaves the signed-URL cache and its timestamp as they
\* were, a failed metadata fetch leaves the metadata cache as it was, either
\* cache changes only in the step in which a round trip succeeds, and every
\* entry is the whole result of one round trip.
C26_CachesChangeOnlyOnSuccess ==
    /\ []EntriesAreWhole
    /\ [][/\ IssuanceFails => UNCHANGED <<urlCache, urlCacheTime>>
          /\ MetaFetchFails => UNCHANGED metaCache
          /\ <<urlCache, urlCacheTime>>' # <<urlCache, urlCacheTime>> =>
                /\ ret'.kind = "issued"
                /\ urlCache'[ret'.year] = ret'.url
                /\ urlCacheTime' = ret'.at
          /\ metaCache' # metaCache =>
                /\ outcome'.fetched
                /\ outcome'.resp.status \in {200, 206}]_vars

\* Both caches hold an entry, and the last issuance and the last metadata fetch
\* have failed.
C26_Witness ==
    /\ ret.kind = "threw"
    /\ \E y \in Years : urlCache[y] # NoUrl /\ y # ret.year
    /\ outcome.resp.status = 500
    /\ outcome.fetched
    /\ \E k \in PmKeys : metaCache[k] # NoMeta /\ metaCache[k].of = outcome.object

\* Size and ETag are those of one content the object has had.
OneSnapshot(size, etag, object) ==
    \E g \in 0..store :
        /\ size = StoredObject(object[2], g).size
        /\ etag = StoredObject(object[2], g).etag

\* C27: whatever the interleaving of the requests for one object, the size and
\* the ETag of every response (sent, or still streaming) are those of a single
\* metadata fetch, and once all requests have finished the cache entry is the
\* result of one single fetch, made no later than now.
C27_ResponsesUseOneFetch ==
    /\ outcome.resp.status \in {200, 206} =>
          OneSnapshot(AnnouncedSize(outcome.resp), outcome.resp.etag, outcome.object)
    /\ \A c \in DOMAIN req :
          req[c].pc = "streaming" =>
             OneSnapshot(AnnouncedSize(StreamingResponse(c)), StreamingResponse(c).etag,
                         req[c].source.object)
    /\ (\A c \in DOMAIN req : req[c].pc = "idle") =>
          \A k \in PmKeys :
             metaCache[k] # NoMeta =>
                /\ OneSnapshot(metaCache[k].size, metaCache[k].etag, metaCache[k].of)
                /\ metaCache[k].fetchedAt <= now
                /\ k = MetaKey([bucket |-> GcsBucket, object |-> metaCache[k].of])

\* A response made from the entry fetched before the object was replaced is
\* still streaming while another request has refreshed the entry and answered
\* with the new size and ETag.
C27_Witness ==
    /\ store > 0
    /\ outcome.resp.status = 206
    /\ outcome.resp.etag = StoredObject(outcome.object[2], store).etag
    /\ \E c \in DOMAIN req :
          /\ req[c].pc = "streaming"
          /\ req[c].source.object = outcome.object
          /\ req[c].meta.etag = StoredObject(outcome.object[2], 0).etag
    /\ metaCache[MetaKey([bucket |-> GcsBucket, object |-> outcome.object])].etag
          = outcome.resp.etag

\* The two objects of the allow-list, as each file names them.
AllowedCogObjects ==
    {CogObject(v, y) : v \in {"route", "tile.js"}, y \in Years}

\* The own keys of urlCache after the request.
CacheKeys ==
    (IF query.warm THEN Years ELSE {}) \cup (IF work.issued THEN {work.key} ELSE {})

\* C28: in every mode a URL is signed only for one of the two allow-listed COG
\* objects and cached only under one of the two allow-listed years, so the
\* cache never holds more than those two keys.
C28_SignedOnlyForAllowedObjects ==
    /\ work.issued => /\ work.signed \in AllowedCogObjects
                      /\ work.key \in Years
    /\ CacheKeys \subseteq Years
    /\ Cardinality(CacheKeys) <= Cardinality(Years)

\* C29: every visible satellite layer has the raster-opacity that the opacity
\* control displays.
C29_VisibleSatelliteHasShownOpacity ==
    \A id \in SatelliteIds :
        view.visibility[id] = "visible" => view.rasterOpacity[id] = view.opacityValue

\* The land-cover and tree layers of the year the slider shows.
YearLayers(year) ==
    IF year = 2016 THEN {"landcover2016", "trees2016"}
                   ELSE {"landcover2024", "trees2024"}

VectorLayerIds == toggleableLayerIds \ SatelliteIds

\* C30: each of the eight layers is visible exactly when its checkbox is
\* checked; right after an input of the year slider the land-cover and tree
\* layers of the selected year, and no other vector layer, are visible; the
\* opacity control is displayed exactly when a satellite checkbox is checked.
C30_LayersFollowControls ==
    /\ \A id \in toggleableLayerIds :
          view.visibility[id] = "visible" <=> view.checked[id]
    /\ \A id \in toggleableLayerIds : view.visibility[id] \in {"visible", "none"}
    /\ view.last = "year" =>
          /\ view.yearDisplay = view.year
          /\ \A id \in VectorLayerIds :
                view.visibility[id] = "visible" <=> id \in YearLayers(view.year)
    /\ view.opacityControl = "block" <=>
          (view.checked["satellite2017"] \/ view.checked["satellite2024"])

\* The year slider was moved to 2024 while a change layer and a satellite layer
\* were shown: the change layer is hidden, the satellite layer stays.
C30_Witness ==
    /\ view.last = "year"
    /\ view.year = 2024
    /\ view.checked["satellite2017"]
    /\ view.opacityControl = "block"
    /\ view.currentSatelliteOpacity = 30
    /\ ~view.checked["landcoverChange"]
    /\ view.visibility["trees2024"] = "visible"

====
